---------------------------- MODULE Spec2Model ----------------------------
(***************************************************************************)
(* A model of the query pipeline of the company-search backend:            *)
(* the filter DSL, the filter merger, the search translator, the filter    *)
(* extractor, the explanation cache and generator, the query rewriter,     *)
(* the engine search, the search orchestrator, concurrent and successive   *)
(* requests on the explanation cache, concurrent requests on the           *)
(* unknown-extraction log, the company research and the vocabulary lookup. *)
(*                                                                         *)
(* Python values are encoded as follows.                                   *)
(*   - a filter value (Union[str, int, float]) is a tagged record, so that *)
(*     the string "5" and the number 5 are different values whose str()    *)
(*     is the same text; numbers are small naturals;                       *)
(*   - None is the record NoneValue;                                       *)
(*   - a pydantic object is a record with the object's fields.  A          *)
(*     SegmentFilter carries one more field, origin, that is not in the    *)
(*     code: it records which caller-side input ("user" or "llm") the      *)
(*     object was built from, and every operation that copies or rebuilds  *)
(*     a SegmentFilter copies it.                                          *)
(***************************************************************************)
EXTENDS Integers, Sequences, FiniteSets, TLC

VARIABLES
    \* merge_filters(user_filters, llm_filters, excluded_values), and the
    \* keyword argument excluded_segments of the calls that pass one
    user_filters, llm_filters, excluded_values, excluded_segments, merged, merge_pc,
    \* filters_to_es_query(filters, query_vector)
    conv_filters, conv_vector, search_body, conv_pc,
    \* ExplanationCache._normalize_query(query) on a query and on a variant of it
    norm_query, norm_variant, norm_edit, query_hash, variant_hash, norm_pc,
    \* extract_query_filters(query, db, es_client, excluded_values)
    \* msearch_outcomes is what es_client.msearch did for each value asked
    \* about, extractions_before the table llm_extractions when the call started
    ext_vocab, ext_excluded, llm_extractions, raw_response, batch_results,
    extracted, ext_pc, msearch_outcomes, extractions_before,
    \* rewrite_query_for_search(query_text, extracted_filters)
    rw_query, rw_filters, rw_llm, rw_result, rw_pc,
    \* batch_generate_explanations(companies, query, applied_filters, use_cache)
    \* and the ExplanationCache singleton it reads
    explanation_cache, batch_companies, batch_query, batch_use_cache, batch_llm,
    batch_result, batch_pc,
    \* search_companies_with_extraction(query_text, db, user_filters, excluded_values, size),
    \* the environment the settings were loaded from, and the calls of the
    \* stages made so far, each with the query it was given
    \* llm_explanations is what batch_generate_explanations did in step 5
    orch_env, orch_calls, llm_explanations, query_text, orch_user_filters, orch_excluded, company_store, search_query,
    thesis_context, orch_llm_filters, applied_filters, clean_query, search_results,
    orch_result, orch_pc,
    \* search_companies_with_filters(es, query_text, filters, size)
    es_query_text, es_filters, es_size, es_query_vector, es_search_body, es_pc,
    \* a sequence of operations on one ExplanationCache: the cache, the cache
    \* before the last operation, the last operation, time.time(), and the
    \* history of the keys (order of last successful use, time of last write,
    \* keys a lookup found expired)
    lru_cache, lru_before, lru_op, lru_now, lru_recency, lru_written, lru_expired,
    lru_ops,
    \* requests in different threads on the cache singleton: the instances
    \* built so far, the global _explanation_cache (0 is None), each thread's
    \* position and locals, and the instances at the start
    thr_caches, thr_global, thr_local, thr_initial,
    \* requests calling track_unknown_extraction: the table llm_extractions,
    \* each session's position and locals, the calls made per pair
    trk_table, trk_local, trk_made,
    \* research_companies(db, company_ids, query): the companies table, the
    \* client get_llm_client returns, the result of each company's task
    res_company_ids, res_query, res_store, res_client, res_tasks, res_result, res_pc,
    \* batch_fuzzy_match_values(es_client, segment, values, threshold) and what
    \* es_client.msearch does
    fz_segment, fz_values, fz_threshold, fz_engine, fz_results, fz_pc,
    \* successive requests to batch_generate_explanations on one cache: the
    \* cache, the last request, what it was served from the cache, and two
    \* records that are not in the code: the applied filters of the request
    \* each stored explanation was generated for, and every explanation served
    \* from the cache so far with the request it was served to
    rq_cache, rq_request, rq_served, rq_generated_for, rq_history, rq_count

rqVars == <<rq_cache, rq_request, rq_served, rq_generated_for, rq_history, rq_count>>

fzVars == <<fz_segment, fz_values, fz_threshold, fz_engine, fz_results, fz_pc>>

resVars ==
    <<res_company_ids, res_query, res_store, res_client, res_tasks, res_result, res_pc>>

trkVars == <<trk_table, trk_local, trk_made>>

thrVars == <<thr_caches, thr_global, thr_local, thr_initial>>

lruVars ==
    <<lru_cache, lru_before, lru_op, lru_now, lru_recency, lru_written, lru_expired,
      lru_ops>>

esVars == <<es_query_text, es_filters, es_size, es_query_vector, es_search_body, es_pc>>

convVars == <<conv_filters, conv_vector, search_body, conv_pc>>

normVars == <<norm_query, norm_variant, norm_edit, query_hash, variant_hash, norm_pc>>

mergeVars ==
    <<user_filters, llm_filters, excluded_values, excluded_segments, merged, merge_pc>>

extVars ==
    <<ext_vocab, ext_excluded, llm_extractions, raw_response, batch_results,
      extracted, ext_pc, msearch_outcomes, extractions_before>>

rwVars == <<rw_query, rw_filters, rw_llm, rw_result, rw_pc>>

batchVars ==
    <<explanation_cache, batch_companies, batch_query, batch_use_cache, batch_llm,
      batch_result, batch_pc>>

orchVars ==
    <<orch_env, orch_calls, llm_explanations, query_text, orch_user_filters, orch_excluded, company_store, search_query,
      thesis_context, orch_llm_filters, applied_filters, clean_query, search_results,
      orch_result, orch_pc>>

vars == <<mergeVars, convVars, normVars, extVars, rwVars, batchVars, orchVars, esVars, lruVars, thrVars, trkVars, resVars, fzVars, rqVars>>

-----------------------------------------------------------------------------
(* Bounds of the enumerated inputs *)

MaxSegs == 2
MaxExcluded == 2
MaxConvRules == 3
MaxQueryLen == 3
MaxMatches == 2
MaxHits == 4
MaxCompanies == 3
MaxCacheEntries == 2
MaxSize == 3
MaxCacheOps == 4
max_size == 2
MaxTrackCalls == 3
ttl_seconds == 2
MaxResearchIds == 2
MaxFuzzyHits == 2
MaxRequests == 3

SeqsUpTo(S, n) == UNION {[1..k -> S] : k \in 0..n}

Range(s) == {s[i] : i \in 1..Len(s)}

-----------------------------------------------------------------------------
(* Filter DSL: backend/models/filters.py *)

NoneValue == [none |-> TRUE]

StrValue(s) == [t |-> "str", s |-> s, n |-> 0]
NumValue(n) == [t |-> "num", s |-> "", n |-> n]

Digits == <<"0", "1", "2", "3", "4", "5", "6", "7", "8", "9">>

RECURSIVE IntStr(_)
IntStr(n) == IF n < 10 THEN Digits[n + 1] ELSE IntStr(n \div 10) \o Digits[(n % 10) + 1]

\* str(value) of a filter value
PyStr(v) == IF v.t = "str" THEN v.s ELSE IntStr(v.n)

FilterType == {"text", "numeric"}
OperatorType == {"EQ", "NEQ", "GT", "GTE", "LT", "LTE"}
LogicType == {"AND", "OR"}

TEXT_SEGMENTS ==
    {"location", "industries", "target_markets", "funding_stage",
     "business_models", "revenue_models"}
NUMERIC_SEGMENTS == {"employee_count", "funding_amount", "stage_order"}
ALL_SEGMENTS == TEXT_SEGMENTS \cup NUMERIC_SEGMENTS

TEXT_OPERATORS == {"EQ", "NEQ"}
NUMERIC_OPERATORS == {"EQ", "NEQ", "GT", "GTE", "LT", "LTE"}

FilterRule(op, value) == [op |-> op, value |-> value]

SegmentFilter(segment, type, logic, rules, origin) ==
    [segment |-> segment, type |-> type, logic |-> logic, rules |-> rules,
     origin |-> origin]

QueryFilters(logic, filters) == [logic |-> logic, filters |-> filters]

\* The validators of SegmentFilter: validate_segment,
\* validate_type_and_operators and validate_rules_not_empty.
SegmentFilterValid(sf) ==
    /\ sf.segment \in ALL_SEGMENTS
    /\ sf.type \in FilterType
    /\ sf.logic \in LogicType
    /\ ~(sf.type = "text" /\ sf.segment \notin TEXT_SEGMENTS)
    /\ ~(sf.type = "numeric" /\ sf.segment \notin NUMERIC_SEGMENTS)
    /\ \A i \in 1..Len(sf.rules) :
          /\ sf.rules[i].op \in OperatorType
          /\ sf.type = "text" => sf.rules[i].op \in TEXT_OPERATORS
          /\ sf.type = "numeric" => sf.rules[i].op \in NUMERIC_OPERATORS
          /\ sf.type = "text" => sf.rules[i].value.t = "str"
          /\ sf.type = "numeric" => sf.rules[i].value.t = "num"
    /\ Len(sf.rules) > 0

\* ExcludedFilterValue is imported from backend.models.filters by its callers;
\* its fields are the ones they read: segment, op, value.
ExcludedFilterValue(segment, op, value) ==
    [segment |-> segment, op |-> op, value |-> value]

-----------------------------------------------------------------------------
(* Filter merger: backend/logic/filter_merger.py *)

\* the set of (op, str(value)) pairs excluded for one segment
excluded_for_segment(segment, excluded) ==
    {<<excluded[i].op, PyStr(excluded[i].value)>> :
        i \in {j \in 1..Len(excluded) : excluded[j].segment = segment}}

remaining_rules(segment_filter, excluded) ==
    SelectSeq(segment_filter.rules,
              LAMBDA rule : <<rule.op, PyStr(rule.value)>>
                               \notin excluded_for_segment(segment_filter.segment, excluded))

filter_excluded_values(filters, excluded) ==
    IF filters = NoneValue \/ Len(excluded) = 0
    THEN filters
    ELSE LET rebuilt == [i \in 1..Len(filters.filters) |->
                            SegmentFilter(filters.filters[i].segment,
                                          filters.filters[i].type,
                                          filters.filters[i].logic,
                                          remaining_rules(filters.filters[i], excluded),
                                          filters.filters[i].origin)]
             filtered_segments == SelectSeq(rebuilt, LAMBDA sf : Len(sf.rules) > 0)
         IN  IF Len(filtered_segments) = 0
             THEN NoneValue
             ELSE QueryFilters(filters.logic, filtered_segments)

\* A plausible slip: only the extracted side is cleaned of excluded values.
merge_filters_UserNotFiltered(user, llm, excluded) ==
    LET u == user
        l == filter_excluded_values(llm, excluded)
    IN  IF u = NoneValue /\ l = NoneValue THEN QueryFilters("AND", <<>>)
        ELSE IF l = NoneValue THEN u
        ELSE IF u = NoneValue THEN l
        ELSE QueryFilters(u.logic,
                 u.filters \o SelectSeq(l.filters,
                     LAMBDA f : f.segment \notin {g.segment : g \in Range(u.filters)}))

merge_filters(user, llm, excluded) ==
    LET u == filter_excluded_values(user, excluded)
        l == filter_excluded_values(llm, excluded)
    IN  IF u = NoneValue /\ l = NoneValue THEN QueryFilters("AND", <<>>)
        ELSE IF l = NoneValue THEN u
        ELSE IF u = NoneValue THEN l
        ELSE LET user_segments == {f.segment : f \in Range(u.filters)}
             IN  QueryFilters(u.logic,
                     u.filters \o SelectSeq(l.filters,
                         LAMBDA llm_filter : llm_filter.segment \notin user_segments))

\* Inputs of merge_filters
MergeSegmentFilters(origin) ==
    { SegmentFilter("industries", "text", "OR",
          <<FilterRule("EQ", StrValue("FinTech")), FilterRule("EQ", StrValue("AI"))>>, origin),
      SegmentFilter("industries", "text", "AND",
          <<FilterRule("EQ", StrValue("AI"))>>, origin),
      SegmentFilter("employee_count", "numeric", "AND",
          <<FilterRule("GTE", NumValue(5))>>, origin) }

MergeFilterInputs(origin) ==
    {NoneValue} \cup
    { QueryFilters(logic, filters) :
        logic \in LogicType, filters \in SeqsUpTo(MergeSegmentFilters(origin), MaxSegs) }

MergeExcludedUniverse ==
    { ExcludedFilterValue("industries", "EQ", StrValue("AI")),
      ExcludedFilterValue("industries", "EQ", StrValue("FinTech")),
      ExcludedFilterValue("employee_count", "GTE", StrValue("5")) }

\* excluded_segments=[...] as the callers that pass it write it: a list of
\* segment names, with no excluded_values
MergeExcludedSegments ==
    { [segments |-> <<"industries">>], [segments |-> <<"employee_count">>],
      [segments |-> <<"industries", "employee_count">>] }

MergeCalled ==
    /\ user_filters \in MergeFilterInputs("user")
    /\ llm_filters \in MergeFilterInputs("llm")
    /\ excluded_values \in SeqsUpTo(MergeExcludedUniverse, MaxExcluded)
    /\ excluded_segments \in {NoneValue} \cup MergeExcludedSegments
    /\ excluded_segments # NoneValue => excluded_values = <<>>
    /\ merged = NoneValue
    /\ merge_pc = "call"

IdleMerge ==
    /\ user_filters = NoneValue
    /\ llm_filters = NoneValue
    /\ excluded_values = <<>>
    /\ excluded_segments = NoneValue
    /\ merged = NoneValue
    /\ merge_pc = "idle"

MergeFilters ==
    /\ merge_pc = "call"
    /\ excluded_segments = NoneValue
    /\ merged' = merge_filters(user_filters, llm_filters, excluded_values)
    /\ merge_pc' = "return"
    /\ UNCHANGED <<user_filters, llm_filters, excluded_values, excluded_segments>>
    /\ UNCHANGED <<convVars, normVars, extVars, rwVars, batchVars, orchVars, esVars, lruVars, thrVars, trkVars, resVars, fzVars, rqVars>>

\* merge_filters has the parameters user_filters, llm_filters and
\* excluded_values only: a call with excluded_segments=... raises TypeError
\* (unexpected keyword argument) before the body runs.
MergeFiltersUnexpectedKeyword ==
    /\ merge_pc = "call"
    /\ excluded_segments # NoneValue
    /\ merged' = [raised |-> "TypeError"]
    /\ merge_pc' = "raised"
    /\ UNCHANGED <<user_filters, llm_filters, excluded_values, excluded_segments>>
    /\ UNCHANGED <<convVars, normVars, extVars, rwVars, batchVars, orchVars, esVars, lruVars, thrVars, trkVars, resVars, fzVars, rqVars>>


(* Claims about merge_filters *)

SegmentsOf(filters) ==
    IF filters = NoneValue THEN {} ELSE {f.segment : f \in Range(filters.filters)}

RulesFor(filters, segment) ==
    IF filters = NoneValue THEN {}
    ELSE UNION {Range(f.rules) : f \in {g \in Range(filters.filters) : g.segment = segment}}

IsExcludedTriple(segment, rule) ==
    \E e \in Range(excluded_values) :
        e.segment = segment /\ e.op = rule.op /\ e.value = rule.value

\* C1: if the user_filters as supplied by the caller contain a SegmentFilter
\* for segment S, the merged result contains no SegmentFilter for S that was
\* built from the LLM-extracted filters (also when exclusion removes every
\* rule of the user's filter for S).
C1_UserOverridesSegment ==
    merge_pc = "return" =>
        \A S \in SegmentsOf(user_filters) :
            \A f \in Range(merged.filters) : f.segment = S => f.origin # "llm"

\* C2: no rule of the merged result has a (segment, operator, value) triple
\* equal to an entry of excluded_values, every SegmentFilter of the result
\* has at least one rule, and a segment all of whose supplied rules are
\* excluded is absent from the result.
C2_NoExcludedValueInMerged ==
    merge_pc = "return" =>
        /\ \A f \in Range(merged.filters) :
              /\ Len(f.rules) > 0
              /\ \A r \in Range(f.rules) : ~IsExcludedTriple(f.segment, r)
        /\ \A S \in ALL_SEGMENTS :
              (\A r \in RulesFor(user_filters, S) \cup RulesFor(llm_filters, S) :
                    IsExcludedTriple(S, r))
                 => S \notin SegmentsOf(merged)

\* A run of merge_filters in which one supplied segment lost every rule to
\* the exclusion list while another segment survived into the result.
C2_Witness ==
    /\ merge_pc = "return"
    /\ Len(merged.filters) > 0
    /\ \E S \in SegmentsOf(user_filters) \cup SegmentsOf(llm_filters) :
          /\ \A r \in RulesFor(user_filters, S) \cup RulesFor(llm_filters, S) :
                IsExcludedTriple(S, r)
          /\ S \notin SegmentsOf(merged)

\* C11: the merged result's logic is the user's logic whenever the caller
\* supplied user filters (also when exclusion removed every user rule),
\* otherwise the extracted side's logic when extracted filters were supplied,
\* otherwise AND.
C11_MergedLogic ==
    merge_pc = "return" =>
        merged.logic = IF user_filters # NoneValue THEN user_filters.logic
                       ELSE IF llm_filters # NoneValue THEN llm_filters.logic
                       ELSE "AND"

\* C20: merge_filters called with excluded_segments = a list of segment
\* names returns a result that contains no SegmentFilter for any listed
\* segment, whether it came from the user filters or from the LLM filters,
\* and keeps the filters of all other segments.
C20_ExcludedSegmentsRemoved ==
    (merge_pc \in {"return", "raised"} /\ excluded_segments # NoneValue) =>
        IF merge_pc = "raised" THEN FALSE
        ELSE LET listed == Range(excluded_segments.segments)
             IN  /\ SegmentsOf(merged) \cap listed = {}
                 /\ (SegmentsOf(user_filters) \cup SegmentsOf(llm_filters)) \ listed
                        \subseteq SegmentsOf(merged)


-----------------------------------------------------------------------------
(* Search translator: backend/es/filter_converter.py *)

\* Engine query clauses, as the dictionaries the code builds.
TermQuery(field, value) == [q |-> "term", field |-> field, value |-> value]
RangeQuery(field, bound, value) ==
    [q |-> "range", field |-> field, bound |-> bound, value |-> value]
MustNotQuery(clause) == [q |-> "must_not", clause |-> clause]
MustQuery(clauses) == [q |-> "must", clauses |-> clauses]
ShouldQuery(clauses, msm) ==
    [q |-> "should", clauses |-> clauses, minimum_should_match |-> msm]
EmptyQuery == [q |-> "empty"]
MatchAllQuery == [q |-> "match_all"]

\* The clause of one rule; <<>> when no branch of the code appends one.
RuleClauseGtAsGte(segment, filter_type, rule) ==
    IF rule.op = "EQ" THEN <<TermQuery(segment, rule.value)>>
    ELSE IF rule.op = "NEQ" THEN <<MustNotQuery(TermQuery(segment, rule.value))>>
    ELSE IF filter_type # "numeric" THEN <<>>
    ELSE IF rule.op = "GT" THEN <<RangeQuery(segment, "gte", rule.value)>>
    ELSE IF rule.op = "GTE" THEN <<RangeQuery(segment, "gte", rule.value)>>
    ELSE IF rule.op = "LT" THEN <<RangeQuery(segment, "lt", rule.value)>>
    ELSE IF rule.op = "LTE" THEN <<RangeQuery(segment, "lte", rule.value)>>
    ELSE <<>>

RuleClause(segment, filter_type, rule) ==
    IF filter_type = "text"
    THEN IF rule.op = "EQ" THEN <<TermQuery(segment, rule.value)>>
         ELSE IF rule.op = "NEQ" THEN <<MustNotQuery(TermQuery(segment, rule.value))>>
         ELSE <<>>
    ELSE IF filter_type = "numeric"
    THEN IF rule.op = "EQ" THEN <<TermQuery(segment, rule.value)>>
         ELSE IF rule.op = "NEQ" THEN <<MustNotQuery(TermQuery(segment, rule.value))>>
         ELSE IF rule.op = "GT" THEN <<RangeQuery(segment, "gt", rule.value)>>
         ELSE IF rule.op = "GTE" THEN <<RangeQuery(segment, "gte", rule.value)>>
         ELSE IF rule.op = "LT" THEN <<RangeQuery(segment, "lt", rule.value)>>
         ELSE IF rule.op = "LTE" THEN <<RangeQuery(segment, "lte", rule.value)>>
         ELSE <<>>
    ELSE <<>>

RECURSIVE Flatten(_)
Flatten(seqs) == IF Len(seqs) = 0 THEN <<>> ELSE Head(seqs) \o Flatten(Tail(seqs))

\* A plausible slip: several rules are always combined with must.
convert_segment_filter_AlwaysMust(segment_filter) ==
    LET clauses == Flatten([i \in 1..Len(segment_filter.rules) |->
                       RuleClause(segment_filter.segment, segment_filter.type,
                                  segment_filter.rules[i])])
    IN  IF Len(clauses) = 0 THEN EmptyQuery
        ELSE IF Len(clauses) = 1 THEN clauses[1]
        ELSE MustQuery(clauses)

convert_segment_filter(segment_filter) ==
    LET clauses == Flatten([i \in 1..Len(segment_filter.rules) |->
                       RuleClause(segment_filter.segment, segment_filter.type,
                                  segment_filter.rules[i])])
    IN  IF Len(clauses) = 0 THEN EmptyQuery
        ELSE IF Len(clauses) = 1 THEN clauses[1]
        ELSE IF segment_filter.logic = "AND" THEN MustQuery(clauses)
        ELSE ShouldQuery(clauses, 1)

\* Request bodies
KnnBody(k, num_candidates) ==
    [body |-> "knn", k |-> k, num_candidates |-> num_candidates]
QueryBody(query) == [body |-> "query", query |-> query]
ScriptScoreBody(query) == [body |-> "script_score", query |-> query]

filters_to_es_query(filters, query_vector) ==
    LET converted == [i \in 1..Len(filters.filters) |->
                         convert_segment_filter(filters.filters[i])]
        filter_clauses == SelectSeq(converted, LAMBDA clause : clause # EmptyQuery)
        filter_query ==
            IF Len(filter_clauses) = 1 THEN filter_clauses[1]
            ELSE IF filters.logic = "AND" THEN MustQuery(filter_clauses)
            ELSE ShouldQuery(filter_clauses, 1)
    IN  IF Len(filter_clauses) = 0
        THEN IF query_vector # NoneValue THEN KnnBody(10, 100)
             ELSE QueryBody(MatchAllQuery)
        ELSE IF query_vector # NoneValue THEN ScriptScoreBody(filter_query)
             ELSE QueryBody(filter_query)

\* The engine's evaluation of a clause on a document.  A document maps each
\* field to the set of its values (empty when the field is absent).
RECURSIVE EsMatches(_, _)
EsMatches(query, doc) ==
    CASE query.q = "term" -> query.value \in doc[query.field]
      [] query.q = "range" ->
            (\E v \in doc[query.field] :
                (CASE query.bound = "gt" -> v.n > query.value.n
                   [] query.bound = "gte" -> v.n >= query.value.n
                   [] query.bound = "lt" -> v.n < query.value.n
                   [] query.bound = "lte" -> v.n <= query.value.n))
      [] query.q = "must_not" -> ~EsMatches(query.clause, doc)
      [] query.q = "must" ->
            \A i \in 1..Len(query.clauses) : EsMatches(query.clauses[i], doc)
      [] query.q = "should" ->
            Cardinality({i \in 1..Len(query.clauses) : EsMatches(query.clauses[i], doc)})
                >= query.minimum_should_match
      [] query.q = "match_all" -> TRUE

\* The documents a request body selects from (kNN ranks every document).
EsBodyAccepts(body, doc) ==
    IF body.body = "knn" THEN TRUE ELSE EsMatches(body.query, doc)

\* The vector argument: None or an embedding
QueryVector == [vector |-> TRUE]

\* Inputs of filters_to_es_query
ConvTextRules ==
    { FilterRule("EQ", StrValue("AI")), FilterRule("NEQ", StrValue("AI")),
      FilterRule("EQ", StrValue("FinTech")) }
ConvNumericRules == { FilterRule(op, NumValue(5)) : op \in NUMERIC_OPERATORS }

ConvRuleCount(filters) ==
    LET RECURSIVE Sum(_)
        Sum(fs) == IF Len(fs) = 0 THEN 0 ELSE Len(Head(fs).rules) + Sum(Tail(fs))
    IN  Sum(filters.filters)

ConvertCalled ==
    /\ conv_filters \in {QueryFilters(logic, <<>>) : logic \in LogicType}
    /\ conv_vector = NoneValue
    /\ search_body = NoneValue
    /\ conv_pc = "build"

IdleConvert ==
    /\ conv_filters = NoneValue
    /\ conv_vector = NoneValue
    /\ search_body = NoneValue
    /\ conv_pc = "idle"

\* The caller appends a SegmentFilter with its first rule.
ConvAddSegmentFilter ==
    /\ conv_pc = "build"
    /\ ConvRuleCount(conv_filters) < MaxConvRules
    /\ \E logic \in LogicType :
          \/ \E rule \in ConvTextRules :
                conv_filters' = [conv_filters EXCEPT !.filters =
                    Append(@, SegmentFilter("industries", "text", logic, <<rule>>, "user"))]
          \/ \E rule \in ConvNumericRules :
                conv_filters' = [conv_filters EXCEPT !.filters =
                    Append(@, SegmentFilter("employee_count", "numeric", logic, <<rule>>, "user"))]
    /\ UNCHANGED <<conv_vector, search_body, conv_pc>>

\* The caller adds a rule to the last SegmentFilter.
ConvAddRule ==
    /\ conv_pc = "build"
    /\ ConvRuleCount(conv_filters) < MaxConvRules
    /\ Len(conv_filters.filters) > 0
    /\ LET n == Len(conv_filters.filters)
           last == conv_filters.filters[n]
       IN  \E rule \in (IF last.type = "text" THEN ConvTextRules ELSE ConvNumericRules) :
              conv_filters' = [conv_filters EXCEPT !.filters[n].rules = Append(@, rule)]
    /\ UNCHANGED <<conv_vector, search_body, conv_pc>>

\* The vector-search calls are enumerated for the filters below the rule bound.
FiltersToEsQuery ==
    /\ conv_pc = "build"
    /\ \E query_vector \in {NoneValue, QueryVector} :
          /\ query_vector # NoneValue => ConvRuleCount(conv_filters) < MaxConvRules
          /\ conv_vector' = query_vector
          /\ search_body' = filters_to_es_query(conv_filters, query_vector)
    /\ conv_pc' = "return"
    /\ UNCHANGED conv_filters

NextConvert ==
    \/ ConvAddSegmentFilter /\ UNCHANGED <<mergeVars, normVars, extVars, rwVars, batchVars, orchVars, esVars, lruVars, thrVars, trkVars, resVars, fzVars, rqVars>>
    \/ ConvAddRule /\ UNCHANGED <<mergeVars, normVars, extVars, rwVars, batchVars, orchVars, esVars, lruVars, thrVars, trkVars, resVars, fzVars, rqVars>>
    \/ FiltersToEsQuery /\ UNCHANGED <<mergeVars, normVars, extVars, rwVars, batchVars, orchVars, esVars, lruVars, thrVars, trkVars, resVars, fzVars, rqVars>>

(* Claims about the search translator *)

\* The documents the claim ranges over.
ConvDocs ==
    [industries : SUBSET {StrValue("AI"), StrValue("FinTech")},
     employee_count : {{}, {NumValue(4)}, {NumValue(5)}, {NumValue(6)}}]

\* The filter DSL's own meaning: EQ equals/contains, NEQ its negation,
\* GT/GTE/LT/LTE with open/closed bounds on a present value.
DslRuleAccepts(segment, rule, doc) ==
    CASE rule.op = "EQ" -> rule.value \in doc[segment]
      [] rule.op = "NEQ" -> rule.value \notin doc[segment]
      [] rule.op = "GT" -> \E v \in doc[segment] : v.n > rule.value.n
      [] rule.op = "GTE" -> \E v \in doc[segment] : v.n >= rule.value.n
      [] rule.op = "LT" -> \E v \in doc[segment] : v.n < rule.value.n
      [] rule.op = "LTE" -> \E v \in doc[segment] : v.n <= rule.value.n

DslSegmentAccepts(sf, doc) ==
    IF sf.logic = "AND"
    THEN \A i \in 1..Len(sf.rules) : DslRuleAccepts(sf.segment, sf.rules[i], doc)
    ELSE \E i \in 1..Len(sf.rules) : DslRuleAccepts(sf.segment, sf.rules[i], doc)

\* No SegmentFilter is no constraint.
DslAccepts(filters, doc) ==
    IF Len(filters.filters) = 0 THEN TRUE
    ELSE IF filters.logic = "AND"
    THEN \A i \in 1..Len(filters.filters) : DslSegmentAccepts(filters.filters[i], doc)
    ELSE \E i \in 1..Len(filters.filters) : DslSegmentAccepts(filters.filters[i], doc)

\* C6: the engine query built from a valid QueryFilters accepts a document
\* iff the filter DSL accepts it.
C6_TranslationPreservesMeaning ==
    conv_pc = "return" =>
        \A doc \in ConvDocs :
            EsBodyAccepts(search_body, doc) <=> DslAccepts(conv_filters, doc)

\* A translation of two SegmentFilters under OR, one of them with two rules
\* under AND and a range rule, that accepts some documents and rejects others.
C6_Witness ==
    /\ conv_pc = "return"
    /\ search_body.body = "query"
    /\ conv_filters.logic = "OR"
    /\ Len(conv_filters.filters) = 2
    /\ \E i \in 1..2 :
          /\ conv_filters.filters[i].logic = "AND"
          /\ Len(conv_filters.filters[i].rules) = 2
          /\ conv_filters.filters[i].rules[1].op = "GT"
          /\ conv_filters.filters[i].rules[2].op = "NEQ"
    /\ \E doc \in ConvDocs : EsBodyAccepts(search_body, doc)
    /\ \E doc \in ConvDocs : ~EsBodyAccepts(search_body, doc)

-----------------------------------------------------------------------------
(* Explanation cache key: backend/llm/explanation_cache.py, _normalize_query *)

\* A string is a sequence of one-character strings.
NormAlphabet == {"a", "A", "b", " ", ".", "_"}

\* str.lower() on one character
LowerChar(c) == IF c = "A" THEN "a" ELSE IF c = "B" THEN "b" ELSE c
UpperChar(c) == IF c = "a" THEN "A" ELSE IF c = "b" THEN "B" ELSE c
IsLetter(c) == c \in {"a", "A", "b", "B"}

\* \s and \w of the re module
IsSpaceChar(c) == c = " "
IsWordChar(c) == IsLetter(c) \/ c = "_"
IsPunctuation(c) == c \in {".", "_"}

\* ord(c)
Ord(c) ==
    CASE c = " " -> 32 [] c = "." -> 46 [] c = "A" -> 65 [] c = "B" -> 66
      [] c = "_" -> 95 [] c = "a" -> 97 [] c = "b" -> 98

\* re.sub(r'[^\w\s]', ' ', s)
SubNonWord(s) ==
    [i \in 1..Len(s) |-> IF IsWordChar(s[i]) \/ IsSpaceChar(s[i]) THEN s[i] ELSE " "]

\* re.sub(r'\s+', ' ', s)
RECURSIVE CollapseSpaces(_)
CollapseSpaces(s) ==
    IF Len(s) <= 1 THEN s
    ELSE IF IsSpaceChar(s[1]) /\ IsSpaceChar(s[2]) THEN CollapseSpaces(Tail(s))
    ELSE <<s[1]>> \o CollapseSpaces(Tail(s))

\* str.strip()
RECURSIVE Strip(_)
Strip(s) ==
    IF Len(s) = 0 THEN s
    ELSE IF IsSpaceChar(s[1]) THEN Strip(Tail(s))
    ELSE IF IsSpaceChar(s[Len(s)]) THEN Strip(SubSeq(s, 1, Len(s) - 1))
    ELSE s

\* str.split(): the maximal runs of non-whitespace characters
RECURSIVE SplitFrom(_, _, _)
SplitFrom(s, i, cur) ==
    IF i > Len(s) THEN (IF Len(cur) = 0 THEN <<>> ELSE <<cur>>)
    ELSE IF IsSpaceChar(s[i])
    THEN (IF Len(cur) = 0 THEN SplitFrom(s, i + 1, <<>>)
          ELSE <<cur>> \o SplitFrom(s, i + 1, <<>>))
    ELSE SplitFrom(s, i + 1, Append(cur, s[i]))

Split(s) == SplitFrom(s, 1, <<>>)

\* x < y for strings, by code point
RECURSIVE StrLess(_, _)
StrLess(x, y) ==
    IF Len(y) = 0 THEN FALSE
    ELSE IF Len(x) = 0 THEN TRUE
    ELSE IF Ord(x[1]) < Ord(y[1]) THEN TRUE
    ELSE IF Ord(x[1]) > Ord(y[1]) THEN FALSE
    ELSE StrLess(Tail(x), Tail(y))

\* sorted(words)
RECURSIVE InsertSorted(_, _)
InsertSorted(w, sortedWords) ==
    IF Len(sortedWords) = 0 THEN <<w>>
    ELSE IF StrLess(w, sortedWords[1]) THEN <<w>> \o sortedWords
    ELSE <<sortedWords[1]>> \o InsertSorted(w, Tail(sortedWords))

RECURSIVE Sorted(_)
Sorted(words) ==
    IF Len(words) = 0 THEN <<>> ELSE InsertSorted(words[1], Sorted(Tail(words)))

\* ' '.join(words)
RECURSIVE Join(_)
Join(words) ==
    IF Len(words) = 0 THEN <<>>
    ELSE IF Len(words) = 1 THEN words[1]
    ELSE words[1] \o <<" ">> \o Join(Tail(words))

\* hashlib.md5(text).hexdigest(): a digest names its text (no two texts of
\* the model collide), and no digest is the empty string.
Md5HexDigest(text) == [digest |-> TRUE, text |-> text]
PlainString(text) == [digest |-> FALSE, text |-> text]

normalize_query(query) ==
    IF Len(query) = 0 THEN PlainString(<<>>)
    ELSE LET lowered == [i \in 1..Len(query) |-> LowerChar(query[i])]
             spaced == Strip(CollapseSpaces(SubNonWord(lowered)))
             words == Sorted(Split(spaced))
         IN  Md5HexDigest(Join(words))

\* The changes of a query string the cache key is meant to absorb.
InsertAt(s, i, c) == SubSeq(s, 1, i) \o <<c>> \o SubSeq(s, i + 1, Len(s))
RemoveAt(s, i) == SubSeq(s, 1, i - 1) \o SubSeq(s, i + 1, Len(s))
SwapAt(words, i, j) ==
    [k \in 1..Len(words) |-> IF k = i THEN words[j] ELSE IF k = j THEN words[i] ELSE words[k]]

NormalizeCalled ==
    /\ norm_query \in SeqsUpTo(NormAlphabet, MaxQueryLen)
    /\ norm_variant = norm_query
    /\ norm_edit = "none"
    /\ query_hash = NoneValue
    /\ variant_hash = NoneValue
    /\ norm_pc = "input"

IdleNormalize ==
    /\ norm_query = <<>>
    /\ norm_variant = <<>>
    /\ norm_edit = "none"
    /\ query_hash = NoneValue
    /\ variant_hash = NoneValue
    /\ norm_pc = "idle"

\* The user retypes the query with one letter in the other case.
ChangeCase ==
    /\ norm_pc = "input"
    /\ \E i \in 1..Len(norm_query) :
          /\ IsLetter(norm_query[i])
          /\ norm_variant' = [norm_query EXCEPT ![i] =
                 IF LowerChar(@) = @ THEN UpperChar(@) ELSE LowerChar(@)]
    /\ norm_edit' = "case"
    /\ norm_pc' = "edited"
    /\ UNCHANGED <<norm_query, query_hash, variant_hash>>

\* ... with one more punctuation character
AddPunctuation ==
    /\ norm_pc = "input"
    /\ \E i \in 0..Len(norm_query), c \in {".", "_"} :
          norm_variant' = InsertAt(norm_query, i, c)
    /\ norm_edit' = "punctuation"
    /\ norm_pc' = "edited"
    /\ UNCHANGED <<norm_query, query_hash, variant_hash>>

\* ... with one punctuation character less
RemovePunctuation ==
    /\ norm_pc = "input"
    /\ \E i \in 1..Len(norm_query) :
          /\ IsPunctuation(norm_query[i])
          /\ norm_variant' = RemoveAt(norm_query, i)
    /\ norm_edit' = "punctuation"
    /\ norm_pc' = "edited"
    /\ UNCHANGED <<norm_query, query_hash, variant_hash>>

\* ... with one more space before, after or next to a space (no token is split)
AddWhitespace ==
    /\ norm_pc = "input"
    /\ \E i \in 0..Len(norm_query) :
          /\ IF i = 0 \/ i = Len(norm_query) THEN TRUE
             ELSE IsSpaceChar(norm_query[i]) \/ IsSpaceChar(norm_query[i + 1])
          /\ norm_variant' = InsertAt(norm_query, i, " ")
    /\ norm_edit' = "whitespace"
    /\ norm_pc' = "edited"
    /\ UNCHANGED <<norm_query, query_hash, variant_hash>>

\* ... with a run of spaces one shorter
CollapseWhitespace ==
    /\ norm_pc = "input"
    /\ \E i \in 1..(Len(norm_query) - 1) :
          /\ IsSpaceChar(norm_query[i])
          /\ IsSpaceChar(norm_query[i + 1])
          /\ norm_variant' = RemoveAt(norm_query, i)
    /\ norm_edit' = "whitespace"
    /\ norm_pc' = "edited"
    /\ UNCHANGED <<norm_query, query_hash, variant_hash>>

\* ... with two of its tokens exchanged
ReorderTokens ==
    /\ norm_pc = "input"
    /\ LET words == Split(norm_query)
       IN  \E i, j \in 1..Len(words) :
              /\ i < j
              /\ norm_variant' = Join(SwapAt(words, i, j))
    /\ norm_edit' = "order"
    /\ norm_pc' = "edited"
    /\ UNCHANGED <<norm_query, query_hash, variant_hash>>

\* get / set compute the key of each string
NormalizeQuery ==
    /\ norm_pc = "edited"
    /\ query_hash' = normalize_query(norm_query)
    /\ variant_hash' = normalize_query(norm_variant)
    /\ norm_pc' = "done"
    /\ UNCHANGED <<norm_query, norm_variant, norm_edit>>

NextNormalize ==
    \/ ChangeCase /\ UNCHANGED <<mergeVars, convVars, extVars, rwVars, batchVars, orchVars, esVars, lruVars, thrVars, trkVars, resVars, fzVars, rqVars>>
    \/ AddPunctuation /\ UNCHANGED <<mergeVars, convVars, extVars, rwVars, batchVars, orchVars, esVars, lruVars, thrVars, trkVars, resVars, fzVars, rqVars>>
    \/ RemovePunctuation /\ UNCHANGED <<mergeVars, convVars, extVars, rwVars, batchVars, orchVars, esVars, lruVars, thrVars, trkVars, resVars, fzVars, rqVars>>
    \/ AddWhitespace /\ UNCHANGED <<mergeVars, convVars, extVars, rwVars, batchVars, orchVars, esVars, lruVars, thrVars, trkVars, resVars, fzVars, rqVars>>
    \/ CollapseWhitespace /\ UNCHANGED <<mergeVars, convVars, extVars, rwVars, batchVars, orchVars, esVars, lruVars, thrVars, trkVars, resVars, fzVars, rqVars>>
    \/ ReorderTokens /\ UNCHANGED <<mergeVars, convVars, extVars, rwVars, batchVars, orchVars, esVars, lruVars, thrVars, trkVars, resVars, fzVars, rqVars>>
    \/ NormalizeQuery /\ UNCHANGED <<mergeVars, convVars, extVars, rwVars, batchVars, orchVars, esVars, lruVars, thrVars, trkVars, resVars, fzVars, rqVars>>

(* Claims about the cache key *)

\* C7: _normalize_query gives the same key for a query and for the string
\* obtained from it by changing letter case, adding or removing a punctuation
\* character, adding or collapsing whitespace, or reordering its tokens (the
\* empty string and strings of only punctuation or whitespace included).
C7_KeyInvariantUnderEdits ==
    norm_pc = "done" => query_hash = variant_hash

-----------------------------------------------------------------------------
(* Filter extractor: backend/llm/query_extractor.py *)

\* db.query(FundingStage).all(): the stored stage names
FundingStages == {"Seed", "Series A"}

\* str.lower() on the strings of the model
LowerStr(s) ==
    CASE s \in {"Seed", "SEED", "seed"} -> "seed"
      [] s \in {"Series A", "series a"} -> "series a"
      [] s = "IPO" -> "ipo"
      [] OTHER -> s

validate_funding_stage(value, stages) ==
    IF \E stage \in stages : LowerStr(stage) = LowerStr(value)
    THEN StrValue(CHOOSE stage \in stages : LowerStr(stage) = LowerStr(value))
    ELSE NoneValue

\* track_unknown_extraction: count the (raw_value, segment) pair
track_unknown_extraction(extractions, value, segment) ==
    IF \E e \in extractions : e.raw_value = value /\ e.segment = segment
    THEN {IF e.raw_value = value /\ e.segment = segment
          THEN [e EXCEPT !.count = @ + 1] ELSE e : e \in extractions}
    ELSE extractions \cup
            {[raw_value |-> value, segment |-> segment, count |-> 1, status |-> "pending"]}

RECURSIVE TrackAll(_, _, _)
TrackAll(extractions, values, segment) ==
    IF Len(values) = 0 THEN extractions
    ELSE TrackAll(track_unknown_extraction(extractions, values[1], segment),
                  Tail(values), segment)

\* A plausible slip: the response is validated as the model wrote it.
FixLogic_Never(segment_filter) == segment_filter

\* The fix of a model response whose segment logic is not AND / OR
FixLogic(segment_filter) ==
    IF segment_filter.logic \notin {"AND", "OR"}
    THEN [segment_filter EXCEPT !.logic = "AND"]
    ELSE segment_filter

\* The funding_stage loop: validated_rules, seen_values after rule i..
RECURSIVE ValidateStageRules(_, _, _, _)
ValidateStageRules(rules, i, stages, acc) ==
    IF i > Len(rules) THEN acc
    ELSE LET matched_value == validate_funding_stage(PyStr(rules[i].value), stages)
         IN  IF matched_value # NoneValue /\ matched_value.s \notin acc.seen
             THEN ValidateStageRules(rules, i + 1, stages,
                      [acc EXCEPT !.rules = Append(@, FilterRule(rules[i].op, matched_value)),
                                  !.seen = @ \cup {matched_value.s}])
             ELSE ValidateStageRules(rules, i + 1, stages, acc)

\* for matched_value in matched_values: one new rule per name not seen yet
RECURSIVE AppendMatches(_, _, _, _)
AppendMatches(op, matched_values, i, acc) ==
    IF i > Len(matched_values) THEN acc
    ELSE IF matched_values[i] \in acc.seen
    THEN AppendMatches(op, matched_values, i + 1, acc)
    ELSE AppendMatches(op, matched_values, i + 1,
             [acc EXCEPT !.rules = Append(@, FilterRule(op, StrValue(matched_values[i]))),
                         !.seen = @ \cup {matched_values[i]}])

\* The loop over the rules of a fuzzy-matched segment
RECURSIVE ValidateFuzzyRules(_, _, _, _)
ValidateFuzzyRules(rules, i, results, acc) ==
    IF i > Len(rules) THEN acc
    ELSE LET rule_value == PyStr(rules[i].value)
             matched_values == results[rule_value]
         IN  IF matched_values # NoneValue
             THEN ValidateFuzzyRules(rules, i + 1, results,
                      AppendMatches(rules[i].op, matched_values.matches, 1, acc))
             ELSE ValidateFuzzyRules(rules, i + 1, results,
                      [acc EXCEPT !.unknown = Append(@, rule_value)])

\* A plausible slip: the generic SaaS rule is never added.
saas_expansion_Never(segment, acc) == acc

\* Auto-expand Vertical / Horizontal SaaS to include generic SaaS
saas_expansion(segment, acc) ==
    IF /\ segment = "business_models"
       /\ \E i \in 1..Len(acc.rules) :
             acc.rules[i].value \in {StrValue("Vertical SaaS"), StrValue("Horizontal SaaS")}
       /\ "SaaS" \notin acc.seen
    THEN [acc EXCEPT !.rules = Append(@, FilterRule("EQ", StrValue("SaaS"))),
                     !.seen = @ \cup {"SaaS"}]
    ELSE acc

\* The body of the loop over filters.filters, for one text segment
validate_segment(segment_filter, results, stages) ==
    LET start == [rules |-> <<>>, seen |-> {}, unknown |-> <<>>]
    IN  IF segment_filter.segment = "funding_stage"
        THEN saas_expansion(segment_filter.segment,
                 ValidateStageRules(segment_filter.rules, 1, stages, start))
        ELSE saas_expansion(segment_filter.segment,
                 ValidateFuzzyRules(segment_filter.rules, 1, results, start))

\* The exclusion of (op, str(value)) pairs, lines 186-198
rules_not_excluded(segment_filter, excluded) ==
    LET excluded_pairs ==
            {<<excluded[i].op, PyStr(excluded[i].value)>> :
                i \in {j \in 1..Len(excluded) : excluded[j].segment = segment_filter.segment}}
    IN  SelectSeq(segment_filter.rules,
                  LAMBDA rule : <<rule.op, PyStr(rule.value)>> \notin excluded_pairs)

RECURSIVE UnknownOf(_, _, _, _, _)
UnknownOf(filters, i, results, stages, extractions) ==
    IF i > Len(filters) THEN extractions
    ELSE IF filters[i].type = "text"
    THEN UnknownOf(filters, i + 1, results, stages,
             TrackAll(extractions, validate_segment(filters[i], results, stages).unknown,
                      filters[i].segment))
    ELSE UnknownOf(filters, i + 1, results, stages, extractions)

\* A plausible slip: segment filters left without rules are returned too.
extract_query_filters_KeepEmpty(response, results, stages, excluded) ==
    QueryFilters(response.logic,
        [i \in 1..Len(response.filters) |->
            IF response.filters[i].type = "text"
            THEN [FixLogic(response.filters[i]) EXCEPT
                     !.rules = validate_segment(response.filters[i], results, stages).rules]
            ELSE FixLogic(response.filters[i])])

\* extract_query_filters after a response that passes QueryFilters(**raw_response)
extract_query_filters(response, results, stages, excluded) ==
    LET validated == [i \in 1..Len(response.filters) |->
            IF response.filters[i].type = "text"
            THEN [FixLogic(response.filters[i]) EXCEPT
                     !.rules = validate_segment(response.filters[i], results, stages).rules]
            ELSE FixLogic(response.filters[i])]
        cleaned == IF Len(excluded) > 0
                   THEN [i \in 1..Len(validated) |->
                            [validated[i] EXCEPT !.rules = rules_not_excluded(validated[i], excluded)]]
                   ELSE validated
    IN  QueryFilters(response.logic, SelectSeq(cleaned, LAMBDA f : Len(f.rules) > 0))

\* The model responses of the enumeration: at most one filter per segment,
\* for business_models, funding_stage and employee_count, in that order,
\* under a top-level logic that may be an operator name.
ExtBusinessModelFilters ==
    { SegmentFilter("business_models", "text", "AND",
          <<FilterRule("EQ", StrValue("vertical saas"))>>, "llm"),
      SegmentFilter("business_models", "text", "OR",
          <<FilterRule("EQ", StrValue("vertical saas")), FilterRule("EQ", StrValue("saas"))>>, "llm"),
      SegmentFilter("business_models", "text", "EQ",
          <<FilterRule("EQ", StrValue("saas")), FilterRule("NEQ", StrValue("vertical saas"))>>, "llm"),
      SegmentFilter("business_models", "text", "AND",
          <<FilterRule("NEQ", StrValue("crm")), FilterRule("EQ", StrValue("vertical saas"))>>, "llm"),
      SegmentFilter("business_models", "text", "AND",
          <<FilterRule("EQ", StrValue("crm")), FilterRule("NEQ", StrValue("crm"))>>, "llm") }

ExtFundingStageFilters ==
    { SegmentFilter("funding_stage", "text", "AND", <<FilterRule("EQ", StrValue("seed"))>>, "llm"),
      SegmentFilter("funding_stage", "text", "OR",
          <<FilterRule("EQ", StrValue("SEED")), FilterRule("EQ", StrValue("IPO")),
            FilterRule("NEQ", StrValue("Seed"))>>, "llm") }

ExtNumericFilters ==
    { SegmentFilter("employee_count", "numeric", "AND", <<FilterRule("GTE", NumValue(5))>>, "llm") }

\* Responses the schema rejects: a range operator on a text segment, no rules
ExtInvalidFilters ==
    { SegmentFilter("business_models", "text", "AND", <<FilterRule("GT", StrValue("saas"))>>, "llm"),
      SegmentFilter("funding_stage", "text", "AND", <<>>, "llm") }

OneOrNone(S) == {<<>>} \cup {<<x>> : x \in S}

ExtResponses ==
    { [logic |-> logic, filters |-> bm \o fs \o ec] :
        logic \in LogicType \cup {"EQ"},
        bm \in OneOrNone(ExtBusinessModelFilters \cup ExtInvalidFilters),
        fs \in OneOrNone(ExtFundingStageFilters),
        ec \in OneOrNone(ExtNumericFilters) }

\* QueryFilters(**raw_response) succeeds (after the logic fix)
ResponseValid(response) ==
    /\ response.logic \in LogicType
    /\ \A i \in 1..Len(response.filters) : SegmentFilterValid(FixLogic(response.filters[i]))

\* The values batch_fuzzy_match_values is asked about
ValuesToValidate(response) ==
    UNION { {PyStr(response.filters[i].rules[j].value) : j \in 1..Len(response.filters[i].rules)} :
              i \in {k \in 1..Len(response.filters) :
                        /\ response.filters[k].type = "text"
                        /\ response.filters[k].segment # "funding_stage"} }

\* results[value]: the names of the segment index that pass the quality
\* filter, in hit order, or None
DistinctSeqs(S, n) ==
    {q \in SeqsUpTo(S, n) : Len(q) > 0 /\ \A i, j \in 1..Len(q) : i # j => q[i] # q[j]}

MatchResults(vocabulary) ==
    {NoneValue} \cup {[matches |-> m] : m \in DistinctSeqs(vocabulary, MaxMatches)}

\* The business_models segment index at the time of the call
ExtVocabularies == {{"Horizontal SaaS"} \cup S : S \in SUBSET {"SaaS", "Vertical SaaS"}}

ExtExcludedUniverse ==
    { ExcludedFilterValue("business_models", "EQ", StrValue("SaaS")),
      ExcludedFilterValue("business_models", "EQ", StrValue("Vertical SaaS")) }

\* What es_client.msearch does for the search of one value: it answers with
\* hits (maybe none), or it fails, because the call raises or because the
\* response of that search is an error item.
MsearchOutcomes == {"answered", "failed"}

\* batch_fuzzy_match_values: results[value] is None after a failure
\* (results[value] = None for an error item, {value: None for value in values}
\* in the except clause); after an answer it is the accepted names, or None
\* when there is no hit or no hit passes the quality filter.
LookupResults(values, vocabulary) ==
    { lookup \in [outcomes : [values -> MsearchOutcomes],
                  results : [values -> MatchResults(vocabulary)]] :
        \A value \in values :
            lookup.outcomes[value] = "failed" => lookup.results[value] = NoneValue }

ExtractCalled ==
    /\ ext_vocab \in ExtVocabularies
    /\ ext_excluded \in SeqsUpTo(ExtExcludedUniverse, MaxExcluded)
    /\ llm_extractions \in
          { {}, {[raw_value |-> "crm", segment |-> "business_models", count |-> 1,
                  status |-> "pending"]} }
    /\ raw_response = NoneValue
    /\ batch_results = NoneValue
    /\ extracted = NoneValue
    /\ ext_pc = "called"
    /\ msearch_outcomes = NoneValue
    /\ extractions_before = llm_extractions

IdleExtract ==
    /\ ext_vocab = {}
    /\ ext_excluded = <<>>
    /\ llm_extractions = {}
    /\ raw_response = NoneValue
    /\ batch_results = NoneValue
    /\ extracted = NoneValue
    /\ ext_pc = "idle"
    /\ msearch_outcomes = NoneValue
    /\ extractions_before = {}

\* The model answers with filters the schema accepts.
ExtractQueryFilters ==
    /\ ext_pc = "called"
    /\ \E response \in ExtResponses :
          /\ ResponseValid(response)
          /\ \E lookup \in LookupResults(ValuesToValidate(response), ext_vocab) :
                /\ raw_response' = response
                /\ msearch_outcomes' = lookup.outcomes
                /\ batch_results' = lookup.results
                /\ llm_extractions' =
                       UnknownOf(response.filters, 1, lookup.results, FundingStages,
                                 llm_extractions)
                /\ extracted' =
                       extract_query_filters(response, lookup.results, FundingStages,
                                             ext_excluded)
    /\ ext_pc' = "return"
    /\ UNCHANGED <<ext_vocab, ext_excluded, extractions_before>>

\* The model answers with filters the schema rejects: ValidationError.
ExtractValidationError ==
    /\ ext_pc = "called"
    /\ \E response \in ExtResponses :
          /\ ~ResponseValid(response)
          /\ raw_response' = response
    /\ extracted' = QueryFilters("AND", <<>>)
    /\ ext_pc' = "return"
    /\ UNCHANGED <<ext_vocab, ext_excluded, llm_extractions, batch_results,
                   msearch_outcomes, extractions_before>>

\* No client, a failed call or a response that is not JSON: the except clauses.
ExtractLlmFails ==
    /\ ext_pc = "called"
    /\ \E failure \in {"ValueError", "APIError", "JSONDecodeError"} :
          raw_response' = [raised |-> failure]
    /\ extracted' = QueryFilters("AND", <<>>)
    /\ ext_pc' = "return"
    /\ UNCHANGED <<ext_vocab, ext_excluded, llm_extractions, batch_results,
                   msearch_outcomes, extractions_before>>

NextExtract ==
    \/ ExtractQueryFilters /\ UNCHANGED <<mergeVars, convVars, normVars, rwVars, batchVars, orchVars, esVars, lruVars, thrVars, trkVars, resVars, fzVars, rqVars>>
    \/ ExtractValidationError /\ UNCHANGED <<mergeVars, convVars, normVars, rwVars, batchVars, orchVars, esVars, lruVars, thrVars, trkVars, resVars, fzVars, rqVars>>
    \/ ExtractLlmFails /\ UNCHANGED <<mergeVars, convVars, normVars, rwVars, batchVars, orchVars, esVars, lruVars, thrVars, trkVars, resVars, fzVars, rqVars>>

(* Claims about the extractor *)

ExtractorAnswered == ext_pc = "return" /\ batch_results # NoneValue

HasRuleValue(segment_filter, s) ==
    \E i \in 1..Len(segment_filter.rules) : segment_filter.rules[i].value = StrValue(s)

\* C3: every rule of a text segment in the returned QueryFilters has a value
\* that is an entry of that segment's vocabulary (for funding_stage: a stored
\* stage name), the rules the extractor appends by itself included.
C3_CanonicalOutput ==
    ext_pc = "return" =>
        \A i \in 1..Len(extracted.filters) :
            LET f == extracted.filters[i]
            IN  f.type = "text" =>
                    \A j \in 1..Len(f.rules) :
                        /\ f.rules[j].value.t = "str"
                        /\ IF f.segment = "funding_stage"
                           THEN f.rules[j].value.s \in FundingStages
                           ELSE f.rules[j].value.s \in ext_vocab

\* C8 as stated: in every returned QueryFilters, for any excluded_values, a
\* business_models segment with a rule "Vertical SaaS" or "Horizontal SaaS"
\* also has a rule "SaaS".
C8_SaasParentPresent ==
    ext_pc = "return" =>
        \A i \in 1..Len(extracted.filters) :
            LET f == extracted.filters[i]
            IN  (/\ f.segment = "business_models"
                 /\ (HasRuleValue(f, "Vertical SaaS") \/ HasRuleValue(f, "Horizontal SaaS")))
                => HasRuleValue(f, "SaaS")

SaasExcluded ==
    \E i \in 1..Len(ext_excluded) :
        /\ ext_excluded[i].segment = "business_models"
        /\ PyStr(ext_excluded[i].value) = "SaaS"

\* C8 amended: when no entry of excluded_values names the business_models
\* value "SaaS", a returned business_models segment with a rule
\* "Vertical SaaS" or "Horizontal SaaS" also has a rule "SaaS".
C8_SaasParentPresentUnlessExcluded ==
    ~SaasExcluded => C8_SaasParentPresent

\* The expansion acted: no match named "SaaS", yet the returned segment has it
\* next to "Vertical SaaS", and some other value was excluded.
C8_Witness ==
    /\ ExtractorAnswered
    /\ ~SaasExcluded
    /\ Len(ext_excluded) > 0
    /\ \A v \in DOMAIN batch_results :
          batch_results[v] # NoneValue => "SaaS" \notin Range(batch_results[v].matches)
    /\ \E i \in 1..Len(extracted.filters) :
          /\ extracted.filters[i].segment = "business_models"
          /\ HasRuleValue(extracted.filters[i], "Horizontal SaaS")
          /\ HasRuleValue(extracted.filters[i], "SaaS")

\* The response was not usable: the call raised, or the object violates the
\* filter schema in something else than a segment-level logic token.
ExtractFailed ==
    IF "raised" \in DOMAIN raw_response THEN TRUE
    ELSE \/ raw_response.logic \notin LogicType
         \/ \E i \in 1..Len(raw_response.filters) :
               ~SegmentFilterValid([raw_response.filters[i] EXCEPT
                     !.logic = IF @ \in LogicType THEN @ ELSE "AND"])

\* C19: if the language-model call raises, returns invalid JSON, or returns
\* an object that violates the filter schema, extract_query_filters returns
\* exactly QueryFilters(AND, []); a wrong segment-level logic token alone is
\* not such a violation: it is replaced by AND and the response is processed.
C19_FailureReturnsEmptyFilters ==
    ext_pc = "return" =>
        /\ ExtractFailed => extracted = QueryFilters("AND", <<>>)
        /\ ~ExtractFailed =>
              /\ batch_results # NoneValue
              /\ \A i \in 1..Len(extracted.filters) :
                    /\ extracted.filters[i].logic \in LogicType
                    /\ \A j \in 1..Len(raw_response.filters) :
                          (/\ raw_response.filters[j].segment = extracted.filters[i].segment
                           /\ raw_response.filters[j].logic \notin LogicType)
                             => extracted.filters[i].logic = "AND"

\* A response with an operator name as top-level logic around a segment
\* filter with the same mistake was answered with the empty filters.
C19_Witness ==
    /\ ext_pc = "return"
    /\ "raised" \notin DOMAIN raw_response
    /\ raw_response.logic \notin LogicType
    /\ \E j \in 1..Len(raw_response.filters) : raw_response.filters[j].logic \notin LogicType
    /\ extracted = QueryFilters("AND", <<>>)

\* A response whose only mistake is the segment-level logic was processed and
\* came back with AND.
C19_WitnessLogicFixed ==
    /\ ext_pc = "return"
    /\ ~ExtractFailed
    /\ \E i \in 1..Len(extracted.filters) :
          \E j \in 1..Len(raw_response.filters) :
              /\ raw_response.filters[j].segment = extracted.filters[i].segment
              /\ raw_response.filters[j].logic \notin LogicType
              /\ extracted.filters[i].logic = "AND"

\* The call raised.
C19_WitnessRaised ==
    /\ ext_pc = "return"
    /\ "raised" \in DOMAIN raw_response
    /\ extracted = QueryFilters("AND", <<>>)

\* The log entries of a raw value
LogEntries(extractions, value) == {e \in extractions : e.raw_value = value}

LogChanged(value) ==
    LogEntries(llm_extractions, value) # LogEntries(extractions_before, value)

\* C29: extract_query_filters writes a log entry for a raw value only when the
\* vocabulary lookup for that value completed and accepted no candidate; when
\* the search engine is unreachable or returns an error for the lookup, the
\* unknown-extraction log is left unchanged.
C29_LogOnlyRealMisses ==
    (ext_pc = "return" /\ msearch_outcomes # NoneValue) =>
        \A value \in DOMAIN msearch_outcomes :
            /\ LogChanged(value) =>
                   /\ msearch_outcomes[value] = "answered"
                   /\ batch_results[value] = NoneValue
            /\ msearch_outcomes[value] = "failed" => ~LogChanged(value)

-----------------------------------------------------------------------------
(* Query rewriter: backend/llm/query_rewriter.py *)

\* Query texts are strings over a letter and the space.
RewriteAlphabet == {"a", " "}

\* not text or not text.strip()
IsBlank(text) == Len(text) = 0 \/ Len(Strip(text)) = 0

\* What get_llm_client() and llm_client.generate(...) can raise: no API key,
\* a failed API call, a response that is not JSON, a response the schema
\* rejects (generate re-raises the ValidationError).
LlmFailures == {"ValueError", "APIError", "JSONDecodeError", "ValidationError"}

LlmRaises(failure) == [raised |-> failure]
LlmResponds(rewritten_query) == [rewritten_query |-> rewritten_query]

\* The lines after the call, 88-93
rewrite_result(original_query, response) ==
    IF IsBlank(response.rewritten_query)
    THEN original_query
    ELSE Strip(response.rewritten_query)

RewriteCalled ==
    /\ rw_query \in SeqsUpTo(RewriteAlphabet, MaxQueryLen)
    /\ rw_filters \in
          { NoneValue, QueryFilters("AND", <<>>),
            QueryFilters("AND", <<SegmentFilter("industries", "text", "AND",
                                      <<FilterRule("EQ", StrValue("AI"))>>, "llm")>>) }
    /\ rw_llm = NoneValue
    /\ rw_result = NoneValue
    /\ rw_pc = "called"

IdleRewrite ==
    /\ rw_query = <<>>
    /\ rw_filters = NoneValue
    /\ rw_llm = NoneValue
    /\ rw_result = NoneValue
    /\ rw_pc = "idle"

\* An empty or blank query is returned as it is, without a model call.
RewriteBlankQuery ==
    /\ rw_pc = "called"
    /\ IsBlank(rw_query)
    /\ rw_result' = [returned |-> rw_query]
    /\ rw_pc' = "return"
    /\ UNCHANGED <<rw_query, rw_filters, rw_llm>>

\* get_llm_client() or llm_client.generate(...) raises; nothing catches it.
RewriteLlmRaises ==
    /\ rw_pc = "called"
    /\ ~IsBlank(rw_query)
    /\ \E failure \in LlmFailures :
          /\ rw_llm' = LlmRaises(failure)
          /\ rw_result' = [raised |-> failure]
    /\ rw_pc' = "raised"
    /\ UNCHANGED <<rw_query, rw_filters>>

\* The model answers with a QueryRewriteResponse.
RewriteLlmResponds ==
    /\ rw_pc = "called"
    /\ ~IsBlank(rw_query)
    /\ \E rewritten_query \in SeqsUpTo(RewriteAlphabet, MaxQueryLen) :
          /\ rw_llm' = LlmResponds(rewritten_query)
          /\ rw_result' = [returned |-> rewrite_result(rw_query, LlmResponds(rewritten_query))]
    /\ rw_pc' = "return"
    /\ UNCHANGED <<rw_query, rw_filters>>

NextRewrite ==
    \/ RewriteBlankQuery /\ UNCHANGED <<mergeVars, convVars, normVars, extVars, batchVars, orchVars, esVars, lruVars, thrVars, trkVars, resVars, fzVars, rqVars>>
    \/ RewriteLlmRaises /\ UNCHANGED <<mergeVars, convVars, normVars, extVars, batchVars, orchVars, esVars, lruVars, thrVars, trkVars, resVars, fzVars, rqVars>>
    \/ RewriteLlmResponds /\ UNCHANGED <<mergeVars, convVars, normVars, extVars, batchVars, orchVars, esVars, lruVars, thrVars, trkVars, resVars, fzVars, rqVars>>

(* Claims about the rewriter *)

RewriteFinished == rw_pc \in {"return", "raised"}

RewriteFailedOrEmpty ==
    /\ rw_llm # NoneValue
    /\ \/ \E failure \in LlmFailures : rw_llm = LlmRaises(failure)
       \/ \E text \in SeqsUpTo(RewriteAlphabet, MaxQueryLen) :
             rw_llm = LlmResponds(text) /\ IsBlank(text)

\* C10: if the model call raises, the response fails schema validation, or
\* the rewritten text is empty or whitespace, rewrite_query_for_search returns
\* the original query string unchanged and does not raise.
C10_FallbackToOriginal ==
    (RewriteFinished /\ RewriteFailedOrEmpty) =>
        (rw_pc = "return" /\ rw_result = [returned |-> rw_query])

-----------------------------------------------------------------------------
(* Explanation cache and batch generator:                                   *)
(* backend/llm/explanation_cache.py, backend/llm/explanation_generator.py   *)

\* The cache is the OrderedDict as a sequence of entries, oldest first, with
\* the three counters.  The cache of the model is built with a short
\* ttl_seconds; time.time() is cache_now.
CacheEntry(company_id, key_hash, explanation, timestamp) ==
    [company_id |-> company_id, query_hash |-> key_hash,
     explanation |-> explanation, timestamp |-> timestamp]

ExplanationCache(entries, hits, misses, evictions) ==
    [entries |-> entries, hits |-> hits, misses |-> misses, evictions |-> evictions]

cache_now == ttl_seconds + 1

KeyIndex(entries, company_id, key_hash) ==
    IF \E i \in 1..Len(entries) :
          entries[i].company_id = company_id /\ entries[i].query_hash = key_hash
    THEN CHOOSE i \in 1..Len(entries) :
          entries[i].company_id = company_id /\ entries[i].query_hash = key_hash
    ELSE 0

\* A plausible slip: a hit returns the entry without move_to_end.
cache_get_NoMoveToEnd(cache, company_id, query, now) ==
    LET key_hash == normalize_query(query)
        i == KeyIndex(cache.entries, company_id, key_hash)
    IN  IF i = 0
        THEN [cache |-> [cache EXCEPT !.misses = @ + 1],
              found |-> FALSE, explanation |-> ""]
        ELSE IF now - cache.entries[i].timestamp > ttl_seconds
        THEN [cache |-> [cache EXCEPT !.entries = RemoveAt(@, i), !.misses = @ + 1],
              found |-> FALSE, explanation |-> ""]
        ELSE [cache |-> [cache EXCEPT !.hits = @ + 1],
              found |-> TRUE, explanation |-> cache.entries[i].explanation]

\* A plausible slip: a hit without the expiry check.
cache_get_NoExpiry(cache, company_id, query, now) ==
    LET key_hash == normalize_query(query)
        i == KeyIndex(cache.entries, company_id, key_hash)
    IN  IF i = 0
        THEN [cache |-> [cache EXCEPT !.misses = @ + 1],
              found |-> FALSE, explanation |-> ""]
        ELSE [cache |-> [cache EXCEPT !.entries = Append(RemoveAt(@, i), @[i]),
                                      !.hits = @ + 1],
              found |-> TRUE, explanation |-> cache.entries[i].explanation]

\* ExplanationCache.get: the cache after the call and the value returned
\* (found = FALSE is None)
cache_get(cache, company_id, query, now) ==
    LET key_hash == normalize_query(query)
        i == KeyIndex(cache.entries, company_id, key_hash)
    IN  IF i = 0
        THEN [cache |-> [cache EXCEPT !.misses = @ + 1],
              found |-> FALSE, explanation |-> ""]
        ELSE IF now - cache.entries[i].timestamp > ttl_seconds
        THEN [cache |-> [cache EXCEPT !.entries = RemoveAt(@, i), !.misses = @ + 1],
              found |-> FALSE, explanation |-> ""]
        ELSE [cache |-> [cache EXCEPT !.entries = Append(RemoveAt(@, i), @[i]),
                                      !.hits = @ + 1],
              found |-> TRUE, explanation |-> cache.entries[i].explanation]

\* ExplanationCache.get_batch: results keeps the non-empty explanations
RECURSIVE get_batch(_, _, _, _, _)
get_batch(cache, company_ids, query, now, results) ==
    IF Len(company_ids) = 0
    THEN [cache |-> cache, results |-> results]
    ELSE LET got == cache_get(cache, company_ids[1], query, now)
         IN  IF got.found /\ got.explanation # ""
             THEN get_batch(got.cache, Tail(company_ids), query, now,
                            (company_ids[1] :> got.explanation) @@ results)
             ELSE get_batch(got.cache, Tail(company_ids), query, now, results)

\* {}: the mapping with no key
EmptyDict == <<>>

\* Steps 1 and 2 of batch_generate_explanations: cached_explanations,
\* companies_to_generate and the cache after the lookups
batch_lookup(companies, query, use_cache, cache, now) ==
    LET looked == IF use_cache
                  THEN get_batch(cache, companies, query, now, EmptyDict)
                  ELSE [cache |-> cache, results |-> EmptyDict]
    IN  [cache |-> looked.cache,
         cached_explanations |-> looked.results,
         companies_to_generate |->
             IF use_cache
             THEN SelectSeq(companies, LAMBDA c : c \notin DOMAIN looked.results)
             ELSE companies]

\* Companies are their ids.
CompanyIds == {1, 2, 3}

BatchQueries == {<<"a">>, <<"A">>}

\* Entries made by earlier set calls: for the query of the call (in either
\* case) or another one, live or expired, one with an empty explanation.
CacheEntryUniverse ==
    { CacheEntry(id, normalize_query(q), e.explanation, e.timestamp) :
        id \in {1, 2}, q \in {<<"a">>, <<"b">>},
        e \in { [explanation |-> "cached", timestamp |-> cache_now],
                [explanation |-> "cached", timestamp |-> cache_now - ttl_seconds],
                [explanation |-> "cached", timestamp |-> cache_now - ttl_seconds - 1],
                [explanation |-> "", timestamp |-> cache_now] } }

CacheEntrySeqs ==
    { es \in SeqsUpTo(CacheEntryUniverse, MaxCacheEntries) :
        \A i, j \in 1..Len(es) :
            i # j => ~(es[i].company_id = es[j].company_id /\ es[i].query_hash = es[j].query_hash) }

BatchCalled ==
    /\ explanation_cache \in {ExplanationCache(es, 0, 0, 0) : es \in CacheEntrySeqs}
    /\ batch_companies \in SeqsUpTo(CompanyIds, MaxCompanies)
    /\ batch_query \in BatchQueries
    /\ batch_use_cache \in BOOLEAN
    /\ batch_llm = NoneValue
    /\ batch_result = NoneValue
    /\ batch_pc = "called"

IdleBatch ==
    /\ explanation_cache = ExplanationCache(<<>>, 0, 0, 0)
    /\ batch_companies = <<>>
    /\ batch_query = <<>>
    /\ batch_use_cache = TRUE
    /\ batch_llm = NoneValue
    /\ batch_result = NoneValue
    /\ batch_pc = "idle"

\* if not companies: return {}
BatchNoCompanies ==
    /\ batch_pc = "called"
    /\ Len(batch_companies) = 0
    /\ batch_result' = EmptyDict
    /\ batch_pc' = "return"
    /\ UNCHANGED <<explanation_cache, batch_companies, batch_query, batch_use_cache, batch_llm>>

\* Every company has a live cached explanation: the early return of step 2.
BatchAllCached ==
    /\ batch_pc = "called"
    /\ Len(batch_companies) > 0
    /\ LET looked == batch_lookup(batch_companies, batch_query, batch_use_cache,
                                  explanation_cache, cache_now)
       IN  /\ Len(looked.companies_to_generate) = 0
           /\ explanation_cache' = looked.cache
           /\ batch_result' = looked.cached_explanations
    /\ batch_pc' = "return"
    /\ UNCHANGED <<batch_companies, batch_query, batch_use_cache, batch_llm>>

\* Some company is not cached.  get_llm_client() raises ValueError without an
\* API key; with a client, client.generate(prompt=prompt) raises TypeError,
\* because LLMClient.generate takes response_model, system_message and
\* user_message and has no parameter prompt.  Either way the except clause
\* returns cached_explanations, and the lines that read a model response
\* (134-169) are never reached.
BatchLlmCallFails ==
    /\ batch_pc = "called"
    /\ Len(batch_companies) > 0
    /\ LET looked == batch_lookup(batch_companies, batch_query, batch_use_cache,
                                  explanation_cache, cache_now)
       IN  /\ Len(looked.companies_to_generate) > 0
           /\ explanation_cache' = looked.cache
           /\ batch_result' = looked.cached_explanations
    /\ \E failure \in {"ValueError", "TypeError"} : batch_llm' = LlmRaises(failure)
    /\ batch_pc' = "return"
    /\ UNCHANGED <<batch_companies, batch_query, batch_use_cache>>

NextBatch ==
    \/ BatchNoCompanies /\ UNCHANGED <<mergeVars, convVars, normVars, extVars, rwVars, orchVars, esVars, lruVars, thrVars, trkVars, resVars, fzVars, rqVars>>
    \/ BatchAllCached /\ UNCHANGED <<mergeVars, convVars, normVars, extVars, rwVars, orchVars, esVars, lruVars, thrVars, trkVars, resVars, fzVars, rqVars>>
    \/ BatchLlmCallFails /\ UNCHANGED <<mergeVars, convVars, normVars, extVars, rwVars, orchVars, esVars, lruVars, thrVars, trkVars, resVars, fzVars, rqVars>>

(* Claims about the batch generator *)

\* C5: for every list of companies, cache state and model response, the key
\* set of the mapping batch_generate_explanations returns equals the set of
\* ids of the input companies.
C5_OneExplanationPerCompany ==
    batch_pc = "return" => DOMAIN batch_result = Range(batch_companies)

-----------------------------------------------------------------------------
(* Explanation cache operations: backend/llm/explanation_cache.py *)

\* A plausible slip: the insertion without the capacity check.
cache_set_NoEviction(cache, company_id, query, explanation, now) ==
    LET key_hash == normalize_query(query)
        i == KeyIndex(cache.entries, company_id, key_hash)
        removed == IF i # 0 THEN RemoveAt(cache.entries, i) ELSE cache.entries
    IN  [cache EXCEPT !.entries =
            Append(removed, CacheEntry(company_id, key_hash, explanation, now))]

\* ExplanationCache.set: the cache after the call
cache_set(cache, company_id, query, explanation, now) ==
    LET key_hash == normalize_query(query)
        i == KeyIndex(cache.entries, company_id, key_hash)
        removed == IF i # 0 THEN RemoveAt(cache.entries, i) ELSE cache.entries
        inserted == Append(removed, CacheEntry(company_id, key_hash, explanation, now))
    IN  IF Len(inserted) > max_size
        THEN [cache EXCEPT !.entries = Tail(inserted), !.evictions = @ + 1]
        ELSE [cache EXCEPT !.entries = inserted]

\* ExplanationCache.set_batch: explanations.items() in insertion order, as a
\* sequence of (company_id, explanation) items
RECURSIVE set_batch(_, _, _, _)
set_batch(cache, explanations, query, now) ==
    IF Len(explanations) = 0 THEN cache
    ELSE set_batch(cache_set(cache, explanations[1].company_id, query,
                             explanations[1].explanation, now),
                   Tail(explanations), query, now)

\* ExplanationCache.clear
cache_clear(cache) == ExplanationCache(<<>>, 0, 0, 0)

\* Inputs of the cache operations
LruQueries == {<<"a">>}
LruCompanyIds == 1..(max_size + 1)
LruBatches == {<<1, 2>>, <<2, 1>>}
Item(company_id, explanation) == [company_id |-> company_id, explanation |-> explanation]

\* The key of an entry, and the keys stored in a cache
CacheKey(company_id, key_hash) == [company_id |-> company_id, query_hash |-> key_hash]
StoredKeys(cache) ==
    {CacheKey(cache.entries[i].company_id, cache.entries[i].query_hash) :
        i \in 1..Len(cache.entries)}

\* The record of the last operation: its arguments, what it returned
\* (returned maps the ids that got an explanation to it) and its time.
LruOp(op, company_ids, query, returned, at) ==
    [op |-> op, company_ids |-> company_ids, query |-> query, returned |-> returned,
     at |-> at]

\* A key becomes the most recently used one.
Touch(recency, key) == Append(SelectSeq(recency, LAMBDA k : k # key), key)

RECURSIVE TouchAll(_, _)
TouchAll(recency, keys) ==
    IF Len(keys) = 0 THEN recency ELSE TouchAll(Touch(recency, keys[1]), Tail(keys))

\* The times at which operations happen: an entry written at 0 is ttl_seconds
\* old at the second one and older at the third.
LruTimes == {0, ttl_seconds, ttl_seconds + 1}

\* get_explanation_cache() has built the empty cache.
CacheCreated ==
    /\ lru_cache = ExplanationCache(<<>>, 0, 0, 0)
    /\ lru_before = ExplanationCache(<<>>, 0, 0, 0)
    /\ lru_op = LruOp("none", <<>>, <<>>, EmptyDict, 0)
    /\ lru_now = 0
    /\ lru_recency = <<>>
    /\ lru_written = EmptyDict
    /\ lru_expired = {}
    /\ lru_ops = 0

IdleCache == CacheCreated

CacheGet ==
    /\ lru_ops < MaxCacheOps
    /\ \E company_id \in LruCompanyIds, query \in LruQueries :
          LET got == cache_get(lru_cache, company_id, query, lru_now)
              key == CacheKey(company_id, normalize_query(query))
          IN  /\ lru_cache' = got.cache
              /\ lru_op' = LruOp("get", <<company_id>>, query,
                                 IF got.found THEN company_id :> got.explanation
                                 ELSE EmptyDict,
                                 lru_now)
              /\ lru_recency' = IF got.found THEN Touch(lru_recency, key) ELSE lru_recency
              /\ lru_expired' = IF key \in StoredKeys(lru_cache) /\ ~got.found
                                THEN lru_expired \cup {key} ELSE lru_expired
    /\ lru_before' = lru_cache
    /\ lru_ops' = lru_ops + 1
    /\ UNCHANGED <<lru_now, lru_written>>

CacheSet ==
    /\ lru_ops < MaxCacheOps
    /\ \E company_id \in LruCompanyIds, query \in LruQueries :
          LET key == CacheKey(company_id, normalize_query(query))
          IN  /\ lru_cache' = cache_set(lru_cache, company_id, query, "generated", lru_now)
              /\ lru_op' = LruOp("set", <<company_id>>, query, EmptyDict, lru_now)
              /\ lru_recency' = Touch(lru_recency, key)
              /\ lru_written' = (key :> lru_now) @@ lru_written
    /\ lru_before' = lru_cache
    /\ lru_ops' = lru_ops + 1
    /\ UNCHANGED <<lru_now, lru_expired>>

CacheGetBatch ==
    /\ lru_ops < MaxCacheOps
    /\ \E company_ids \in LruBatches, query \in LruQueries :
          LET got == get_batch(lru_cache, company_ids, query, lru_now, EmptyDict)
              hits == SelectSeq(company_ids, LAMBDA c : c \in DOMAIN got.results)
              KeyOf(c) == CacheKey(c, normalize_query(query))
          IN  /\ lru_cache' = got.cache
              /\ lru_op' = LruOp("get_batch", company_ids, query, got.results, lru_now)
              /\ lru_recency' = TouchAll(lru_recency, [i \in 1..Len(hits) |-> KeyOf(hits[i])])
              /\ lru_expired' = lru_expired \cup
                    {KeyOf(c) : c \in {d \in Range(company_ids) :
                        KeyOf(d) \in StoredKeys(lru_cache) /\ d \notin DOMAIN got.results}}
    /\ lru_before' = lru_cache
    /\ lru_ops' = lru_ops + 1
    /\ UNCHANGED <<lru_now, lru_written>>

CacheSetBatch ==
    /\ lru_ops < MaxCacheOps
    /\ \E company_ids \in LruBatches, query \in LruQueries :
          LET explanations == [i \in 1..Len(company_ids) |-> Item(company_ids[i], "generated")]
              KeyOf(c) == CacheKey(c, normalize_query(query))
          IN  /\ lru_cache' = set_batch(lru_cache, explanations, query, lru_now)
              /\ lru_op' = LruOp("set_batch", company_ids, query, EmptyDict, lru_now)
              /\ lru_recency' =
                    TouchAll(lru_recency, [i \in 1..Len(company_ids) |-> KeyOf(company_ids[i])])
              /\ lru_written' =
                    [k \in {KeyOf(c) : c \in Range(company_ids)} |-> lru_now] @@ lru_written
    /\ lru_before' = lru_cache
    /\ lru_ops' = lru_ops + 1
    /\ UNCHANGED <<lru_now, lru_expired>>

CacheClear ==
    /\ lru_ops < MaxCacheOps
    /\ lru_cache' = cache_clear(lru_cache)
    /\ lru_op' = LruOp("clear", <<>>, <<>>, EmptyDict, lru_now)
    /\ lru_before' = lru_cache
    /\ lru_ops' = lru_ops + 1
    /\ UNCHANGED <<lru_now, lru_recency, lru_written, lru_expired>>

\* time.time() advances between two operations.
ClockTick ==
    /\ \E t \in LruTimes :
          /\ t > lru_now
          /\ lru_now' = t
    /\ UNCHANGED <<lru_cache, lru_before, lru_op, lru_recency, lru_written, lru_expired, lru_ops>>

CacheOthersUnchanged ==
    UNCHANGED <<mergeVars, convVars, normVars, extVars, rwVars, batchVars, orchVars, esVars, thrVars, trkVars, resVars, fzVars, rqVars>>

NextCache ==
    \/ CacheGet /\ CacheOthersUnchanged
    \/ CacheSet /\ CacheOthersUnchanged
    \/ CacheGetBatch /\ CacheOthersUnchanged
    \/ CacheSetBatch /\ CacheOthersUnchanged
    \/ CacheClear /\ CacheOthersUnchanged
    \/ ClockTick /\ CacheOthersUnchanged

(* Claims about the cache operations *)

\* C14: after any sequence of get, get_batch, set, set_batch and clear
\* operations the number of stored entries never exceeds max_size.
C14_CapacityNeverExceeded == Len(lru_cache.entries) <= max_size

\* A set_batch on a full cache that evicted and left the cache full.
C14_Witness ==
    /\ lru_op.op = "set_batch"
    /\ Len(lru_before.entries) = max_size
    /\ lru_cache.evictions > lru_before.evictions
    /\ Len(lru_cache.entries) = max_size

\* Position of a key in the order of last successful use
RecencyRank(key) == CHOOSE i \in 1..Len(lru_recency) : lru_recency[i] = key

\* The key of the last get or set
LruOpKey == CacheKey(lru_op.company_ids[1], normalize_query(lru_op.query))

\* C15: when a set of a key not in the cache makes the size exceed max_size,
\* exactly one entry is removed and it is the entry whose most recent
\* successful get or set is the oldest among the stored entries; a set of a
\* key already stored evicts nothing, and the entry just written is never the
\* victim (max_size >= 1).
C15_EvictsLeastRecentlyUsed ==
    lru_op.op = "set" =>
        LET before == StoredKeys(lru_before)
            after == StoredKeys(lru_cache)
        IN  /\ LruOpKey \in after
            /\ LruOpKey \in before =>
                  /\ after = before
                  /\ lru_cache.evictions = lru_before.evictions
            /\ (LruOpKey \notin before /\ Cardinality(before) + 1 <= max_size) =>
                  /\ after = before \cup {LruOpKey}
                  /\ lru_cache.evictions = lru_before.evictions
            /\ (LruOpKey \notin before /\ Cardinality(before) + 1 > max_size) =>
                  /\ lru_cache.evictions = lru_before.evictions + 1
                  /\ \E victim \in before :
                        /\ after = (before \ {victim}) \cup {LruOpKey}
                        /\ \A other \in before \ {victim} :
                              RecencyRank(victim) < RecencyRank(other)

\* A set on a full cache whose victim was written after an entry that
\* survives: the survivor was read in between.
C15_Witness ==
    /\ lru_op.op = "set"
    /\ LruOpKey \notin StoredKeys(lru_before)
    /\ Len(lru_before.entries) = max_size
    /\ \E victim \in StoredKeys(lru_before) \ StoredKeys(lru_cache) :
          \E other \in StoredKeys(lru_before) \ {victim} :
              /\ other \in StoredKeys(lru_cache)
              /\ lru_written[other] < lru_written[victim]

\* C16: get(company_id, query) returns a stored explanation only if it was
\* written at most ttl_seconds before the lookup; a lookup of an older entry
\* returns nothing, removes that entry and counts as a miss, and a later set
\* of the same key makes it retrievable again.
C16_ExpiryOnLookup ==
    /\ lru_op.op = "get" =>
          LET company_id == lru_op.company_ids[1]
              i == KeyIndex(lru_before.entries, company_id, LruOpKey.query_hash)
          IN  /\ company_id \in DOMAIN lru_op.returned =>
                    /\ i # 0
                    /\ lru_op.returned[company_id] = lru_before.entries[i].explanation
                    /\ lru_op.at - lru_written[LruOpKey] <= ttl_seconds
              /\ (LruOpKey \in StoredKeys(lru_before)
                     /\ lru_op.at - lru_written[LruOpKey] > ttl_seconds) =>
                    /\ lru_op.returned = EmptyDict
                    /\ LruOpKey \notin StoredKeys(lru_cache)
                    /\ lru_cache.misses = lru_before.misses + 1
                    /\ lru_cache.hits = lru_before.hits
    /\ lru_op.op = "set" =>
          \A t \in lru_op.at..(lru_op.at + ttl_seconds) :
              LET got == cache_get(lru_cache, lru_op.company_ids[1], lru_op.query, t)
              IN  got.found /\ got.explanation = "generated"

\* A lookup found an entry older than ttl_seconds, and the key was set again.
C16_Witness ==
    /\ lru_op.op = "set"
    /\ LruOpKey \in lru_expired
    /\ lru_cache.misses > 0

\* A lookup that found an entry exactly ttl_seconds old and returned it.
C16_WitnessLive ==
    /\ lru_op.op = "get"
    /\ lru_op.returned # EmptyDict
    /\ lru_op.at - lru_written[LruOpKey] = ttl_seconds

-----------------------------------------------------------------------------
(* Concurrent requests on the explanation cache:                            *)
(* backend/llm/explanation_cache.py, get_explanation_cache, get and set     *)

\* Neither get_explanation_cache nor the methods of ExplanationCache take a
\* lock, so the statements of two requests that run in different threads
\* interleave.  A request makes one call, get or set, for the query "a" at
\* time cache_now; each step below is one statement of the code, and a
\* counter update `+= 1` is a read followed by a write.
Threads == {"request_a", "request_b"}

ThreadQuery == <<"a">>

ThreadLocal(pc, op, company_id, inst, counter, tmp) ==
    [pc |-> pc, op |-> op, company_id |-> company_id, inst |-> inst,
     counter |-> counter, tmp |-> tmp]

\* Caches an earlier sequence of operations leaves at cache_now: empty, one
\* expired entry, one live entry, full with live entries, full with an
\* expired entry first.
ThreadEntry(company_id, timestamp) ==
    CacheEntry(company_id, normalize_query(ThreadQuery), "generated", timestamp)

ThreadCaches ==
    { <<>>,
      <<ThreadEntry(1, 0)>>,
      <<ThreadEntry(1, cache_now)>>,
      [i \in 1..max_size |-> ThreadEntry(i, cache_now)],
      [i \in 1..max_size |-> ThreadEntry(i, IF i = 1 THEN 0 ELSE cache_now)] }

\* The process has started; the singleton is not built yet or holds one of
\* the caches above.
ThreadsStarted ==
    /\ thr_caches \in {<<>>} \cup {<<ExplanationCache(es, 0, 0, 0)>> : es \in ThreadCaches}
    /\ thr_global = Len(thr_caches)
    /\ thr_initial = thr_caches
    /\ thr_local = [t \in Threads |-> ThreadLocal("idle", "none", 0, 0, "none", 0)]

IdleThreads ==
    /\ thr_caches = <<>>
    /\ thr_global = 0
    /\ thr_initial = <<>>
    /\ thr_local = [t \in Threads |-> ThreadLocal("off", "none", 0, 0, "none", 0)]

ThreadKeyIndex(t) ==
    KeyIndex(thr_caches[thr_local[t].inst].entries, thr_local[t].company_id,
             normalize_query(ThreadQuery))

Goto(t, pc) == thr_local' = [thr_local EXCEPT ![t].pc = pc]

\* The first statement of a method
Entry(op) == IF op = "get" THEN "get_lookup" ELSE "set_lookup"

\* A request reaches a call of the cache.
ThreadCall(t) ==
    /\ thr_local[t].pc = "idle"
    /\ \E op \in {"get", "set"}, company_id \in LruCompanyIds :
          thr_local' = [thr_local EXCEPT
              ![t] = ThreadLocal("singleton_check", op, company_id, 0, "none", 0)]
    /\ UNCHANGED <<thr_caches, thr_global, thr_initial>>

\* get_explanation_cache: if _explanation_cache is None
SingletonCheck(t) ==
    /\ thr_local[t].pc = "singleton_check"
    /\ thr_local' = [thr_local EXCEPT
          ![t].pc = IF thr_global = 0 THEN "singleton_create" ELSE Entry(thr_local[t].op),
          ![t].inst = thr_global]
    /\ UNCHANGED <<thr_caches, thr_global, thr_initial>>

\* _explanation_cache = ExplanationCache(...)
SingletonCreate(t) ==
    /\ thr_local[t].pc = "singleton_create"
    /\ thr_caches' = Append(thr_caches, ExplanationCache(<<>>, 0, 0, 0))
    /\ thr_global' = Len(thr_caches) + 1
    /\ thr_local' = [thr_local EXCEPT
          ![t].pc = Entry(thr_local[t].op),
          ![t].inst = Len(thr_caches) + 1]
    /\ UNCHANGED thr_initial

\* get: if key not in self._cache
GetLookup(t) ==
    /\ thr_local[t].pc = "get_lookup"
    /\ IF ThreadKeyIndex(t) = 0
       THEN thr_local' = [thr_local EXCEPT ![t].pc = "count_read", ![t].counter = "misses"]
       ELSE Goto(t, "get_read")
    /\ UNCHANGED <<thr_caches, thr_global, thr_initial>>

\* get: explanation, timestamp = self._cache[key], then the expiry test
GetRead(t) ==
    /\ thr_local[t].pc = "get_read"
    /\ LET i == ThreadKeyIndex(t)
       IN  IF i = 0 THEN Goto(t, "raised")
           ELSE IF cache_now - thr_caches[thr_local[t].inst].entries[i].timestamp > ttl_seconds
           THEN Goto(t, "get_delete")
           ELSE Goto(t, "get_move")
    /\ UNCHANGED <<thr_caches, thr_global, thr_initial>>

\* get: del self._cache[key]
GetDelete(t) ==
    /\ thr_local[t].pc = "get_delete"
    /\ LET i == ThreadKeyIndex(t)
       IN  IF i = 0
           THEN Goto(t, "raised") /\ UNCHANGED thr_caches
           ELSE /\ thr_caches' = [thr_caches EXCEPT
                      ![thr_local[t].inst].entries = RemoveAt(@, i)]
                /\ thr_local' = [thr_local EXCEPT
                      ![t].pc = "count_read", ![t].counter = "misses"]
    /\ UNCHANGED <<thr_global, thr_initial>>

\* get: self._cache.move_to_end(key)
GetMove(t) ==
    /\ thr_local[t].pc = "get_move"
    /\ LET i == ThreadKeyIndex(t)
       IN  IF i = 0
           THEN Goto(t, "raised") /\ UNCHANGED thr_caches
           ELSE /\ thr_caches' = [thr_caches EXCEPT
                      ![thr_local[t].inst].entries = Append(RemoveAt(@, i), @[i])]
                /\ thr_local' = [thr_local EXCEPT
                      ![t].pc = "count_read", ![t].counter = "hits"]
    /\ UNCHANGED <<thr_global, thr_initial>>

\* self._hits += 1, self._misses += 1, self._evictions += 1: the read
CountRead(t) ==
    /\ thr_local[t].pc = "count_read"
    /\ thr_local' = [thr_local EXCEPT
          ![t].pc = "count_write",
          ![t].tmp = thr_caches[thr_local[t].inst][thr_local[t].counter]]
    /\ UNCHANGED <<thr_caches, thr_global, thr_initial>>

\* ... and the write; the call returns
CountWrite(t) ==
    /\ thr_local[t].pc = "count_write"
    /\ thr_caches' = [thr_caches EXCEPT
          ![thr_local[t].inst][thr_local[t].counter] = thr_local[t].tmp + 1]
    /\ Goto(t, "done")
    /\ UNCHANGED <<thr_global, thr_initial>>

\* set: if key in self._cache
SetLookup(t) ==
    /\ thr_local[t].pc = "set_lookup"
    /\ IF ThreadKeyIndex(t) = 0 THEN Goto(t, "set_insert") ELSE Goto(t, "set_delete")
    /\ UNCHANGED <<thr_caches, thr_global, thr_initial>>

\* set: del self._cache[key]
SetDelete(t) ==
    /\ thr_local[t].pc = "set_delete"
    /\ LET i == ThreadKeyIndex(t)
       IN  IF i = 0
           THEN Goto(t, "raised") /\ UNCHANGED thr_caches
           ELSE /\ thr_caches' = [thr_caches EXCEPT
                      ![thr_local[t].inst].entries = RemoveAt(@, i)]
                /\ Goto(t, "set_insert")
    /\ UNCHANGED <<thr_global, thr_initial>>

\* set: self._cache[key] = (explanation, time.time()); a key that is present
\* keeps its position
SetInsert(t) ==
    /\ thr_local[t].pc = "set_insert"
    /\ LET i == ThreadKeyIndex(t)
           entry == ThreadEntry(thr_local[t].company_id, cache_now)
       IN  thr_caches' = [thr_caches EXCEPT
              ![thr_local[t].inst].entries =
                  IF i = 0 THEN Append(@, entry) ELSE [@ EXCEPT ![i] = entry]]
    /\ Goto(t, "set_check")
    /\ UNCHANGED <<thr_global, thr_initial>>

\* set: if len(self._cache) > self.max_size
SetCheck(t) ==
    /\ thr_local[t].pc = "set_check"
    /\ IF Len(thr_caches[thr_local[t].inst].entries) > max_size
       THEN Goto(t, "set_pop")
       ELSE Goto(t, "done")
    /\ UNCHANGED <<thr_caches, thr_global, thr_initial>>

\* set: self._cache.popitem(last=False)
SetPop(t) ==
    /\ thr_local[t].pc = "set_pop"
    /\ IF Len(thr_caches[thr_local[t].inst].entries) = 0
       THEN Goto(t, "raised") /\ UNCHANGED thr_caches
       ELSE /\ thr_caches' = [thr_caches EXCEPT ![thr_local[t].inst].entries = Tail(@)]
            /\ thr_local' = [thr_local EXCEPT
                  ![t].pc = "count_read", ![t].counter = "evictions"]
    /\ UNCHANGED <<thr_global, thr_initial>>

ThreadsOthersUnchanged ==
    UNCHANGED <<mergeVars, convVars, normVars, extVars, rwVars, batchVars, orchVars,
                esVars, lruVars, trkVars, resVars, fzVars, rqVars>>

NextThreads ==
    \/ \E t \in Threads : ThreadCall(t) /\ ThreadsOthersUnchanged
    \/ \E t \in Threads : SingletonCheck(t) /\ ThreadsOthersUnchanged
    \/ \E t \in Threads : SingletonCreate(t) /\ ThreadsOthersUnchanged
    \/ \E t \in Threads : GetLookup(t) /\ ThreadsOthersUnchanged
    \/ \E t \in Threads : GetRead(t) /\ ThreadsOthersUnchanged
    \/ \E t \in Threads : GetDelete(t) /\ ThreadsOthersUnchanged
    \/ \E t \in Threads : GetMove(t) /\ ThreadsOthersUnchanged
    \/ \E t \in Threads : CountRead(t) /\ ThreadsOthersUnchanged
    \/ \E t \in Threads : CountWrite(t) /\ ThreadsOthersUnchanged
    \/ \E t \in Threads : SetLookup(t) /\ ThreadsOthersUnchanged
    \/ \E t \in Threads : SetDelete(t) /\ ThreadsOthersUnchanged
    \/ \E t \in Threads : SetInsert(t) /\ ThreadsOthersUnchanged
    \/ \E t \in Threads : SetCheck(t) /\ ThreadsOthersUnchanged
    \/ \E t \in Threads : SetPop(t) /\ ThreadsOthersUnchanged

(* Claims about concurrent requests *)

\* The cache after the call of request t made alone on a cache
CallAlone(t, cache) ==
    IF thr_local[t].op = "get"
    THEN cache_get(cache, thr_local[t].company_id, ThreadQuery, cache_now).cache
    ELSE cache_set(cache, thr_local[t].company_id, ThreadQuery, "generated", cache_now)

FirstCache == IF Len(thr_initial) = 0 THEN ExplanationCache(<<>>, 0, 0, 0) ELSE thr_initial[1]

-----------------------------------------------------------------------------
(* Concurrent requests on the unknown-extraction log:                       *)
(* backend/llm/query_extractor.py, track_unknown_extraction                 *)

\* Every request has its own database session; the table llm_extractions is
\* shared and has no unique constraint on (raw_value, segment).  A call is
\* the SELECT, then the INSERT or the UPDATE with the commit; the UPDATE
\* writes the count the session computed from the row it read.
Sessions == {"request_a", "request_b"}

TrackPairs ==
    { [raw_value |-> "crm", segment |-> "industries"],
      [raw_value |-> "crm", segment |-> "business_models"],
      [raw_value |-> "erp", segment |-> "industries"] }

LLMExtraction(raw_value, segment, count, status) ==
    [raw_value |-> raw_value, segment |-> segment, count |-> count, status |-> status]

SessionLocal(pc, pair, existing, count) ==
    [pc |-> pc, pair |-> pair, existing |-> existing, count |-> count]

NoPair == [raw_value |-> "", segment |-> ""]

\* The rows (by position in the table) of a (raw_value, segment) pair
RowsOf(table, pair) ==
    {i \in 1..Len(table) :
        table[i].raw_value = pair.raw_value /\ table[i].segment = pair.segment}

CallsMade(made) ==
    LET RECURSIVE Sum(_)
        Sum(S) == IF S = {} THEN 0
                  ELSE LET p == CHOOSE q \in S : TRUE IN made[p] + Sum(S \ {p})
    IN  Sum(TrackPairs)

\* The table is empty and no request is in a call.
TrackingStarted ==
    /\ trk_table = <<>>
    /\ trk_local = [s \in Sessions |-> SessionLocal("idle", NoPair, 0, 0)]
    /\ trk_made = [p \in TrackPairs |-> 0]

IdleTracking ==
    /\ trk_table = <<>>
    /\ trk_local = [s \in Sessions |-> SessionLocal("off", NoPair, 0, 0)]
    /\ trk_made = [p \in TrackPairs |-> 0]

\* db.query(LLMExtraction).filter(...).first() finds no row
TrackQueryNone(s) ==
    /\ trk_local[s].pc = "idle"
    /\ CallsMade(trk_made) < MaxTrackCalls
    /\ \E pair \in TrackPairs :
          /\ RowsOf(trk_table, pair) = {}
          /\ trk_local' = [trk_local EXCEPT ![s] = SessionLocal("insert", pair, 0, 0)]
          /\ trk_made' = [trk_made EXCEPT ![pair] = @ + 1]
    /\ UNCHANGED trk_table

\* ... or returns a row of the pair (any of them: the query has no ORDER BY)
TrackQueryExisting(s) ==
    /\ trk_local[s].pc = "idle"
    /\ CallsMade(trk_made) < MaxTrackCalls
    /\ \E pair \in TrackPairs :
          \E i \in RowsOf(trk_table, pair) :
              /\ trk_local' = [trk_local EXCEPT
                    ![s] = SessionLocal("update", pair, i, trk_table[i].count)]
              /\ trk_made' = [trk_made EXCEPT ![pair] = @ + 1]
    /\ UNCHANGED trk_table

\* existing.count += 1; db.commit()
TrackUpdate(s) ==
    /\ trk_local[s].pc = "update"
    /\ trk_table' = [trk_table EXCEPT ![trk_local[s].existing].count = trk_local[s].count + 1]
    /\ trk_local' = [trk_local EXCEPT ![s] = SessionLocal("idle", NoPair, 0, 0)]
    /\ UNCHANGED trk_made

\* db.add(LLMExtraction(..., count=1, status="pending")); db.commit()
TrackInsert(s) ==
    /\ trk_local[s].pc = "insert"
    /\ trk_table' = Append(trk_table,
          LLMExtraction(trk_local[s].pair.raw_value, trk_local[s].pair.segment, 1, "pending"))
    /\ trk_local' = [trk_local EXCEPT ![s] = SessionLocal("idle", NoPair, 0, 0)]
    /\ UNCHANGED trk_made

TrackingOthersUnchanged ==
    UNCHANGED <<mergeVars, convVars, normVars, extVars, rwVars, batchVars, orchVars,
                esVars, lruVars, thrVars, resVars, fzVars, rqVars>>

NextTracking ==
    \/ \E s \in Sessions : TrackQueryNone(s) /\ TrackingOthersUnchanged
    \/ \E s \in Sessions : TrackQueryExisting(s) /\ TrackingOthersUnchanged
    \/ \E s \in Sessions : TrackUpdate(s) /\ TrackingOthersUnchanged
    \/ \E s \in Sessions : TrackInsert(s) /\ TrackingOthersUnchanged

(* Claims about the unknown-extraction log *)

\* C18: after any sequence or interleaving of track_unknown_extraction calls
\* from concurrent requests, the log holds at most one record per
\* (raw_value, segment) pair, and once the calls have returned that record's
\* count equals the number of calls made for the pair.
C18_OneRecordPerPairCountsCalls ==
    /\ \A pair \in TrackPairs : Cardinality(RowsOf(trk_table, pair)) <= 1
    /\ (\A s \in Sessions : trk_local[s].pc = "idle") =>
          \A pair \in TrackPairs :
              trk_made[pair] > 0 =>
                  \E i \in RowsOf(trk_table, pair) : trk_table[i].count = trk_made[pair]

-----------------------------------------------------------------------------
(* Engine search: backend/es/operations.py, backend/es/embeddings.py *)

\* [0.0] * settings.embedding_dimensions
ZeroVector == [vector |-> "zero"]

\* model.encode(text).tolist(): some vector determined by the text
Encode(text) == [vector |-> "encoded", text |-> text]

\* A text argument (Optional[str]): None or the string's characters
Text(chars) == [chars |-> chars]

\* `not text` is true for None and for ""
generate_embedding(text) ==
    IF text = NoneValue THEN ZeroVector
    ELSE IF IsBlank(text.chars) THEN ZeroVector
    ELSE Encode(text.chars)

\* A request: the body and, when the code sets it, the "size" key
NoSize == [given |-> FALSE]
SizeKey(size) == [given |-> TRUE, n |-> size]
SearchRequest(body, size) == [request |-> body, size |-> size]

\* `filters and filters.filters`
HasFilters(filters) ==
    IF filters = NoneValue THEN FALSE ELSE Len(filters.filters) > 0

\* A plausible slip: the translator is called for every search, so that a
\* search without filters gets the translator's own kNN clause.
search_companies_with_filters_AlwaysTranslate(text, filters, size) ==
    LET query_vector == generate_embedding(text)
    IN  SearchRequest(filters_to_es_query(
                          IF filters = NoneValue THEN QueryFilters("AND", <<>>) ELSE filters,
                          query_vector),
                      SizeKey(size))

search_companies_with_filters(text, filters, size) ==
    LET query_vector == generate_embedding(text)
    IN  IF HasFilters(filters)
        THEN SearchRequest(filters_to_es_query(filters, query_vector), SizeKey(size))
        ELSE SearchRequest(KnnBody(size, size * 10), NoSize)

\* Inputs of search_companies_with_filters
EsQueryTexts == {NoneValue} \cup {Text(chars) : chars \in SeqsUpTo(RewriteAlphabet, MaxQueryLen)}

EsSegmentFilters ==
    { SegmentFilter("industries", "text", "OR",
          <<FilterRule("EQ", StrValue("FinTech")), FilterRule("NEQ", StrValue("AI"))>>, "user"),
      SegmentFilter("employee_count", "numeric", "AND",
          <<FilterRule("GTE", NumValue(5))>>, "llm") }

EsFilters ==
    {NoneValue} \cup
    { QueryFilters(logic, filters) :
        logic \in LogicType, filters \in SeqsUpTo(EsSegmentFilters, MaxSegs) }

EngineSearchCalled ==
    /\ es_query_text \in EsQueryTexts
    /\ es_filters \in EsFilters
    /\ es_size \in 1..MaxSize
    /\ es_query_vector = NoneValue
    /\ es_search_body = NoneValue
    /\ es_pc = "call"

IdleEngineSearch ==
    /\ es_query_text = NoneValue
    /\ es_filters = NoneValue
    /\ es_size = 1
    /\ es_query_vector = NoneValue
    /\ es_search_body = NoneValue
    /\ es_pc = "idle"

SearchCompaniesWithFilters ==
    /\ es_pc = "call"
    /\ es_query_vector' = generate_embedding(es_query_text)
    /\ es_search_body' = search_companies_with_filters(es_query_text, es_filters, es_size)
    /\ es_pc' = "return"
    /\ UNCHANGED <<es_query_text, es_filters, es_size>>

NextEngineSearch ==
    SearchCompaniesWithFilters
        /\ UNCHANGED <<mergeVars, convVars, normVars, extVars, rwVars, batchVars, orchVars, lruVars, thrVars, trkVars, resVars, fzVars, rqVars>>

(* Claims about the engine search *)

EsBlankQuery == IF es_query_text = NoneValue THEN TRUE ELSE IsBlank(es_query_text.chars)

\* C12: when the final search query is absent, empty or whitespace, no query
\* vector is used: with non-empty applied filters the engine query is the
\* plain boolean filter query without a script_score wrapper, and with empty
\* applied filters it is match_all.
C12_BlankQueryNoVectorLeg ==
    (es_pc = "return" /\ EsBlankQuery) =>
        /\ es_search_body.request.body = "query"
        /\ HasFilters(es_filters) =>
              es_search_body.request = filters_to_es_query(es_filters, NoneValue)
        /\ ~HasFilters(es_filters) =>
              es_search_body.request = QueryBody(MatchAllQuery)

\* C13: every engine query produced for a search with a query vector and no
\* filters, for a requested size n, is a pure kNN clause with k = n and
\* num_candidates = 10 * n.
C13_VectorOnlyKnnSize ==
    (es_pc = "return" /\ es_query_vector # NoneValue /\ ~HasFilters(es_filters)) =>
        es_search_body.request = KnnBody(es_size, 10 * es_size)

\* A search for a non-blank query with an empty filter list and the largest
\* requested size answered with a kNN request.
C13_Witness ==
    /\ es_pc = "return"
    /\ es_query_vector = Encode(<<"a">>)
    /\ es_filters = QueryFilters("OR", <<>>)
    /\ es_size = MaxSize
    /\ es_search_body.request.body = "knn"

-----------------------------------------------------------------------------
(* Search orchestrator: backend/logic/search.py *)

\* A query text is its characters together with the detector keywords and
\* patterns that occur in it and the number of its complex terms.
Query(chars, keywords, complex_terms) ==
    [chars |-> chars, keywords |-> keywords, complex_terms |-> complex_terms]

PORTFOLIO_KEYWORDS ==
    {"portfolio", "investments", "invested in", "holdings", "my companies",
     "complement", "strategic additions", "diversify", "prior investments"}

CONCEPTUAL_KEYWORDS ==
    {"api-first", "emerging", "optimize", "revolutionize", "transform", "disrupt",
     "next-generation", "cutting-edge", "innovative approach", "strategic thesis"}

CONCEPTUAL_PATTERNS == {" for ", " to ", "-driven", "-first", "-powered"}

\* not (text and text.strip())
IsBlankQuery(query) == IF query = NoneValue THEN TRUE ELSE IsBlank(query.chars)

detect_query_type(query) ==
    IF IsBlankQuery(query) THEN "simple_search"
    ELSE IF query.keywords \cap PORTFOLIO_KEYWORDS # {} THEN "portfolio_thesis"
    ELSE LET conceptual_score ==
                 Cardinality(query.keywords \cap CONCEPTUAL_KEYWORDS)
                 + Cardinality(query.keywords \cap CONCEPTUAL_PATTERNS)
                 + (IF query.complex_terms >= 2 THEN 1 ELSE 0)
         IN  IF conceptual_score >= 2 THEN "conceptual_thesis" ELSE "simple_search"

\* Engine scores are in hundredths; the engine returns its hits best first.
ScoreAtRank(i) == IF 250 - 60 * i > 0 THEN 250 - 60 * i ELSE 0

Hit(id, score) == [id |-> id, score |-> score]

SearchHits ==
    { [i \in 1..Len(ids) |-> Hit(ids[i], ScoreAtRank(i))] :
        ids \in SeqsUpTo(CompanyIds, MaxHits) }

\* A plausible slip: the ids are read from the hit list, not from the dict.
company_ids_of_HitList(hits) == [i \in 1..Len(hits) |-> hits[i].id]

\* list(company_scores.keys()): a dict keeps each key at its first insertion
RECURSIVE company_ids_of(_)
company_ids_of(hits) ==
    IF Len(hits) = 0 THEN <<>>
    ELSE LET front == company_ids_of(SubSeq(hits, 1, Len(hits) - 1))
             last == hits[Len(hits)].id
         IN  IF last \in Range(front) THEN front ELSE Append(front, last)

\* company_scores[cid]: the value of the last hit with that id
company_score(hits, cid) ==
    LET i == CHOOSE k \in 1..Len(hits) :
                 hits[k].id = cid /\ \A j \in (k + 1)..Len(hits) : hits[j].id # cid
    IN  hits[i].score

\* company_dict and sorted_companies: the hit ids the store has, in hit order
sorted_companies(hits, store) ==
    SelectSeq(company_ids_of(hits), LAMBDA cid : cid \in store)

\* explain_result: the relevance sentence that ends every rule-based
\* explanation.  The sentences before it (strategic fit, matched filters,
\* keywords) depend on company attributes the model does not hold.
normalized_score_percent(es_score) ==
    LET normalized == IF es_score > 100 THEN es_score - 100 ELSE es_score
    IN  IF normalized < 0 THEN 0 ELSE IF normalized > 100 THEN 100 ELSE normalized

explain_result(company, es_score, context) ==
    [source |-> "rule_based",
     text |-> IF normalized_score_percent(es_score) >= 75
              THEN "High relevance with your query."
              ELSE IF normalized_score_percent(es_score) >= 35
              THEN "Good relevance with your query."
              ELSE "Some relevance with your query."]

LlmExplanation(text) == [source |-> "llm", text |-> text]

\* What a call that returned gave back
Returned(value) == [returned |-> value]

\* A plausible slip: only the companies of the batch result are returned.
companies_with_explanations_NoFallback(hits, store, explanations, context) ==
    LET companies == SelectSeq(sorted_companies(hits, store),
                               LAMBDA cid : cid \in DOMAIN explanations)
    IN  [i \in 1..Len(companies) |->
            [company |-> companies[i],
             explanation |-> LlmExplanation(explanations[companies[i]])]]

\* Steps 4 and 5: the (company, explanation) pairs
companies_with_explanations(hits, store, explanations, context) ==
    LET companies == sorted_companies(hits, store)
    IN  [i \in 1..Len(companies) |->
            [company |-> companies[i],
             explanation |->
                 IF companies[i] \in DOMAIN explanations
                    /\ explanations[companies[i]] # ""
                 THEN LlmExplanation(explanations[companies[i]])
                 ELSE explain_result(companies[i], company_score(hits, companies[i]), context)]]

\* The query string handed to the cache (None hashes like the empty string)
QueryChars(query) == IF query = NoneValue THEN <<>> ELSE query.chars

OrchQueries ==
    { NoneValue,
      Query(<<" ">>, {}, 0),
      Query(<<"a">>, {}, 0),
      Query(<<"a", " ", "b">>, {" for "}, 1),
      Query(<<"A">>, {"portfolio", " for "}, 0),
      Query(<<"b">>, {"api-first", "-first"}, 2) }

\* expanded_query of a PortfolioAnalysis / ThesisExpansion
OrchExpandedQueries == {Query(<<"b">>, {}, 0), Query(<<" ">>, {}, 0)}

OrchUserFilters ==
    { NoneValue,
      QueryFilters("AND", <<SegmentFilter("employee_count", "numeric", "AND",
                                <<FilterRule("GTE", NumValue(5))>>, "user")>>) }

OrchExcluded ==
    { <<>>, <<ExcludedFilterValue("industries", "EQ", StrValue("AI"))>> }

\* A model response of the enumeration: a text segment whose only value the
\* vocabulary may not have, and a numeric segment
OrchResponses ==
    { [logic |-> "AND",
       filters |-> <<SegmentFilter("business_models", "text", "AND",
                         <<FilterRule("EQ", StrValue("crm"))>>, "llm"),
                     SegmentFilter("employee_count", "numeric", "AND",
                         <<FilterRule("LT", NumValue(7))>>, "llm")>>] }

\* What extract_query_filters can return: no filters (also after any failure),
\* filters without excluded values, or its answer to a model response
OrchExtracted(excluded) ==
    {QueryFilters("AND", <<>>)} \cup
    { qf \in { QueryFilters("AND", <<SegmentFilter("industries", "text", "AND",
                                        <<FilterRule("EQ", StrValue("AI"))>>, "llm")>>) } :
        filter_excluded_values(qf, excluded) = qf } \cup
    UNION { { extract_query_filters(response, results, FundingStages, excluded) :
                results \in [ValuesToValidate(response) -> MatchResults({"SaaS"})] } :
            response \in OrchResponses }

\* The companies table: it lacks one of the ids the engine may return.
OrchStores == {{1, 3}}

\* Settings: the fields a Settings object has; model_config has
\* extra="ignore", so any other variable of the environment is dropped.
SETTINGS_FIELDS ==
    {"database_url", "elasticsearch_url", "elasticsearch_api_key",
     "embedding_model_name", "embedding_dimensions", "llm_model", "llm_api_key",
     "llm_base_url", "use_llm_cache", "llm_cache_db_path"}

Settings(env) == [name \in DOMAIN env \cap SETTINGS_FIELDS |-> env[name]]

\* The environments of the enumeration: without a switch for the conceptual
\* expansion, and with the switch off
OrchEnvironments ==
    { [database_url |-> "postgresql://db"],
      [database_url |-> "postgresql://db", enable_conceptual_expansion |-> "false"] }

\* A call of a stage with the query it is given
Call(stage, query) == [stage |-> stage, query |-> query]

\* The stage that step 0 calls for a thesis query
ThesisStage(query) ==
    IF detect_query_type(query) = "portfolio_thesis"
    THEN "analyze_portfolio_for_complementary_thesis"
    ELSE "expand_conceptual_thesis"

OrchCaches ==
    { ExplanationCache(<<>>, 0, 0, 0),
      ExplanationCache(<<CacheEntry(1, normalize_query(<<"a">>), "cached", cache_now)>>, 0, 0, 0) }

SearchCalled ==
    /\ orch_env \in OrchEnvironments
    /\ orch_calls = <<>>
    /\ llm_explanations = NoneValue
    /\ query_text \in OrchQueries
    /\ orch_user_filters \in OrchUserFilters
    /\ orch_excluded \in OrchExcluded
    /\ company_store \in OrchStores
    /\ explanation_cache \in OrchCaches
    /\ search_query = query_text
    /\ thesis_context = NoneValue
    /\ orch_llm_filters = NoneValue
    /\ applied_filters = NoneValue
    /\ clean_query = NoneValue
    /\ search_results = NoneValue
    /\ orch_result = NoneValue
    /\ orch_pc = "called"
    /\ batch_companies = <<>>
    /\ batch_query = <<>>
    /\ batch_use_cache = TRUE
    /\ batch_llm = NoneValue
    /\ batch_result = NoneValue
    /\ batch_pc = "idle"

IdleSearch ==
    /\ orch_env = EmptyDict
    /\ orch_calls = <<>>
    /\ llm_explanations = NoneValue
    /\ query_text = NoneValue
    /\ orch_user_filters = NoneValue
    /\ orch_excluded = <<>>
    /\ company_store = {}
    /\ search_query = NoneValue
    /\ thesis_context = NoneValue
    /\ orch_llm_filters = NoneValue
    /\ applied_filters = NoneValue
    /\ clean_query = NoneValue
    /\ search_results = NoneValue
    /\ orch_result = NoneValue
    /\ orch_pc = "idle"

\* Step 0 for a query that is absent, blank or a simple search
OrchSimpleQuery ==
    /\ orch_pc = "called"
    /\ detect_query_type(query_text) = "simple_search"
    /\ orch_pc' = "extract"
    /\ UNCHANGED orch_calls
    /\ UNCHANGED <<orch_env, llm_explanations, query_text, orch_user_filters, orch_excluded, company_store,
                   search_query, thesis_context, orch_llm_filters, applied_filters,
                   clean_query, search_results, orch_result>>

\* Step 0 for a thesis query whose analysis / expansion succeeds
OrchThesisExpanded ==
    /\ orch_pc = "called"
    /\ detect_query_type(query_text) \in {"portfolio_thesis", "conceptual_thesis"}
    /\ \E expanded_query \in OrchExpandedQueries : search_query' = expanded_query
    /\ thesis_context' =
          [type |-> IF detect_query_type(query_text) = "portfolio_thesis"
                    THEN "portfolio" ELSE "conceptual"]
    /\ orch_pc' = "extract"
    /\ orch_calls' = Append(orch_calls, Call(ThesisStage(query_text), query_text))
    /\ UNCHANGED <<orch_env, llm_explanations, query_text, orch_user_filters, orch_excluded, company_store,
                   orch_llm_filters, applied_filters, clean_query, search_results,
                   orch_result>>

\* Step 0 for a thesis query whose analysis / expansion returns None (the
\* analyzer and the expander catch every exception)
OrchThesisFailed ==
    /\ orch_pc = "called"
    /\ detect_query_type(query_text) \in {"portfolio_thesis", "conceptual_thesis"}
    /\ orch_pc' = "extract"
    /\ orch_calls' = Append(orch_calls, Call(ThesisStage(query_text), query_text))
    /\ UNCHANGED <<orch_env, llm_explanations, query_text, orch_user_filters, orch_excluded, company_store,
                   search_query, thesis_context, orch_llm_filters, applied_filters,
                   clean_query, search_results, orch_result>>

\* Steps 1 and 2: extract (or not, for a blank search query) and merge
OrchExtractMerge ==
    /\ orch_pc = "extract"
    /\ \E extracted_filters \in
             IF IsBlankQuery(search_query)
             THEN {QueryFilters("AND", <<>>)}
             ELSE OrchExtracted(orch_excluded) :
          /\ orch_llm_filters' = extracted_filters
          /\ applied_filters' = merge_filters(orch_user_filters, extracted_filters, orch_excluded)
    /\ orch_pc' = "rewrite"
    /\ orch_calls' =
          IF IsBlankQuery(search_query)
          THEN Append(orch_calls, Call("merge_filters", NoneValue))
          ELSE orch_calls \o <<Call("extract_query_filters", search_query),
                               Call("merge_filters", NoneValue)>>
    /\ UNCHANGED <<orch_env, llm_explanations, query_text, orch_user_filters, orch_excluded, company_store,
                   search_query, thesis_context, clean_query, search_results, orch_result>>

\* A plausible slip: every non-blank search query is rewritten.
RewriteApplies_AnyQuery == ~IsBlankQuery(search_query)

\* search_query and search_query.strip() and thesis_context is None
RewriteApplies ==
    IF IsBlankQuery(search_query) THEN FALSE ELSE thesis_context = NoneValue

\* Step 2.5 is skipped for a blank search query and for an expanded thesis.
OrchRewriteSkipped ==
    /\ orch_pc = "rewrite"
    /\ ~RewriteApplies
    /\ clean_query' = search_query
    /\ orch_pc' = "search"
    /\ UNCHANGED orch_calls
    /\ UNCHANGED <<orch_env, llm_explanations, query_text, orch_user_filters, orch_excluded, company_store,
                   search_query, thesis_context, orch_llm_filters, applied_filters,
                   search_results, orch_result>>

\* Step 2.5: rewrite_query_for_search returns.
OrchRewriteReturns ==
    /\ orch_pc = "rewrite"
    /\ RewriteApplies
    /\ \E rewritten_query \in {<<>>, <<"b">>} :
          clean_query' =
              Query(rewrite_result(search_query.chars, LlmResponds(rewritten_query)), {}, 0)
    /\ orch_pc' = "search"
    /\ orch_calls' = Append(orch_calls, Call("rewrite_query_for_search", search_query))
    /\ UNCHANGED <<orch_env, llm_explanations, query_text, orch_user_filters, orch_excluded, company_store,
                   search_query, thesis_context, orch_llm_filters, applied_filters,
                   search_results, orch_result>>

\* Step 2.5: rewrite_query_for_search raises; the call is not in a try block.
OrchRewriteRaises ==
    /\ orch_pc = "rewrite"
    /\ RewriteApplies
    /\ \E failure \in LlmFailures : orch_result' = [raised |-> failure]
    /\ orch_pc' = "raised"
    /\ orch_calls' = Append(orch_calls, Call("rewrite_query_for_search", search_query))
    /\ UNCHANGED <<orch_env, llm_explanations, query_text, orch_user_filters, orch_excluded, company_store,
                   search_query, thesis_context, orch_llm_filters, applied_filters,
                   clean_query, search_results>>

\* Step 3: the engine answers with its hit list.
OrchSearch ==
    /\ orch_pc = "search"
    /\ search_results' \in SearchHits
    /\ orch_pc' = "hydrate"
    /\ orch_calls' = Append(orch_calls, Call("search_companies_with_filters", clean_query))
    /\ UNCHANGED <<orch_env, llm_explanations, query_text, orch_user_filters, orch_excluded, company_store,
                   search_query, thesis_context, orch_llm_filters, applied_filters,
                   clean_query, orch_result>>

\* Steps 4 and 5: hydrate, explain, return.  batch_generate_explanations
\* returns the cached explanations (its model call cannot succeed); every
\* other company gets explain_result.
OrchExplainAndReturn ==
    /\ orch_pc = "hydrate"
    /\ LET companies == sorted_companies(search_results, company_store)
           looked == batch_lookup(companies, QueryChars(query_text), TRUE,
                                  explanation_cache, cache_now)
       IN  IF Len(companies) = 0
           THEN /\ orch_result' = <<>>
                /\ llm_explanations' =
                       IF Len(search_results) = 0 THEN NoneValue ELSE Returned(EmptyDict)
                /\ UNCHANGED explanation_cache
           ELSE /\ explanation_cache' = looked.cache
                /\ llm_explanations' = Returned(looked.cached_explanations)
                /\ orch_result' =
                       companies_with_explanations(search_results, company_store,
                                                   looked.cached_explanations, thesis_context)
    /\ orch_pc' = "done"
    /\ UNCHANGED orch_calls
    /\ UNCHANGED <<orch_env, query_text, orch_user_filters, orch_excluded, company_store,
                   search_query, thesis_context, orch_llm_filters, applied_filters,
                   clean_query, search_results>>

\* Step 5 when batch_generate_explanations raises (its cache lookup is not
\* in a try block): lines 233-241, explain_result for every company.
OrchExplainBatchRaises ==
    /\ orch_pc = "hydrate"
    /\ Len(sorted_companies(search_results, company_store)) > 0
    /\ llm_explanations' = [raised |-> "KeyError"]
    /\ orch_result' =
           companies_with_explanations(search_results, company_store, EmptyDict,
                                       thesis_context)
    /\ orch_pc' = "done"
    /\ UNCHANGED orch_calls
    /\ UNCHANGED <<orch_env, query_text, orch_user_filters, orch_excluded, company_store,
                   search_query, thesis_context, orch_llm_filters, applied_filters,
                   clean_query, search_results>>

OrchOthersUnchanged ==
    UNCHANGED <<mergeVars, convVars, normVars, extVars, rwVars, rqVars, fzVars, resVars, trkVars, thrVars, lruVars, esVars,
                batch_companies, batch_query, batch_use_cache, batch_llm,
                batch_result, batch_pc>>

NextSearch ==
    \/ OrchSimpleQuery /\ OrchOthersUnchanged /\ UNCHANGED explanation_cache
    \/ OrchThesisExpanded /\ OrchOthersUnchanged /\ UNCHANGED explanation_cache
    \/ OrchThesisFailed /\ OrchOthersUnchanged /\ UNCHANGED explanation_cache
    \/ OrchExtractMerge /\ OrchOthersUnchanged /\ UNCHANGED explanation_cache
    \/ OrchRewriteSkipped /\ OrchOthersUnchanged /\ UNCHANGED explanation_cache
    \/ OrchRewriteReturns /\ OrchOthersUnchanged /\ UNCHANGED explanation_cache
    \/ OrchRewriteRaises /\ OrchOthersUnchanged /\ UNCHANGED explanation_cache
    \/ OrchSearch /\ OrchOthersUnchanged /\ UNCHANGED explanation_cache
    \/ OrchExplainAndReturn /\ OrchOthersUnchanged
    \/ OrchExplainBatchRaises /\ OrchOthersUnchanged /\ UNCHANGED explanation_cache

(* Claims about the orchestrator *)

ResultIds == [i \in 1..Len(orch_result) |-> orch_result[i].company]

\* The hit ids found in the store, each at its first occurrence
RECURSIVE FirstOccurrencesInStore(_, _, _)
FirstOccurrencesInStore(hits, i, store) ==
    IF i > Len(hits) THEN <<>>
    ELSE IF hits[i].id \in store /\ \A j \in 1..(i - 1) : hits[j].id # hits[i].id
    THEN <<hits[i].id>> \o FirstOccurrencesInStore(hits, i + 1, store)
    ELSE FirstOccurrencesInStore(hits, i + 1, store)

\* C4: for every engine hit list (repeated ids and ids missing from the store
\* included) the returned records are exactly the hit ids found in the store,
\* in the order of their first occurrence, and no id appears twice.
C4_RankOrderNoDuplicates ==
    orch_pc = "done" =>
        /\ ResultIds = FirstOccurrencesInStore(search_results, 1, company_store)
        /\ \A i, j \in 1..Len(orch_result) : i # j => ResultIds[i] # ResultIds[j]

\* A returned list of two records from a hit list that repeats an id before a
\* new one and names an id the store does not have
C4_Witness ==
    /\ orch_pc = "done"
    /\ Len(orch_result) = 2
    /\ \E i, j, k \in 1..Len(search_results) :
          /\ i < j /\ j < k
          /\ search_results[i].id = search_results[j].id
          /\ search_results[k].id # search_results[i].id
          /\ search_results[k].id \in company_store
    /\ \E i \in 1..Len(search_results) : search_results[i].id \notin company_store

\* C9: whatever language-model-backed stages fail, with the engine and the
\* store available, search_companies_with_extraction does not raise and
\* returns the hydrated engine results, each with an explanation.
C9_DegradedModeReturns ==
    orch_pc \in {"done", "raised"} =>
        /\ orch_pc = "done"
        /\ ResultIds = FirstOccurrencesInStore(search_results, 1, company_store)
        /\ \A i \in 1..Len(orch_result) : orch_result[i].explanation.text # ""

\* C21: every SegmentFilter of the applied filters (after extraction,
\* canonicalization, rule replacement, exclusion and merge) has a known
\* segment, the type of the segment's kind, only operators allowed for that
\* kind, values of the kind's type, and at least one rule.
C21_AppliedFiltersValid ==
    applied_filters # NoneValue =>
        \A i \in 1..Len(applied_filters.filters) :
            SegmentFilterValid(applied_filters.filters[i])

\* Without user filters, the applied filters are the extracted numeric
\* segment: the extraction dropped the text segment whose only value had no
\* match
C21_Witness ==
    /\ orch_pc = "done"
    /\ Len(orch_llm_filters.filters) = 1
    /\ orch_llm_filters.filters[1].segment = "employee_count"
    /\ orch_user_filters = NoneValue
    /\ applied_filters = orch_llm_filters

\* The applied filters hold the user's numeric segment and an extracted text
\* segment whose value is the vocabulary's
C21_WitnessMerged ==
    /\ orch_pc = "done"
    /\ Len(applied_filters.filters) = 2
    /\ applied_filters.filters[1].origin = "user"
    /\ applied_filters.filters[2].segment = "business_models"
    /\ applied_filters.filters[2].rules = <<FilterRule("EQ", StrValue("SaaS"))>>

\* C25: every returned (record, explanation) pair has a non-empty
\* explanation: the batch-generated one when the batch result has a non-empty
\* entry for the record's id, otherwise the rule-based one, both when the
\* batch generation returns a partial mapping and when it raises; the
\* returned records and their order are the same in all these cases.
C25_ExplanationFallback ==
    orch_pc = "done" =>
        /\ ResultIds = sorted_companies(search_results, company_store)
        /\ \A i \in 1..Len(orch_result) :
              LET cid == orch_result[i].company
                  batch_entry ==
                      IF "returned" \in DOMAIN llm_explanations
                      THEN (IF cid \in DOMAIN llm_explanations.returned
                            THEN llm_explanations.returned[cid] ELSE "")
                      ELSE ""
              IN  /\ orch_result[i].explanation.text # ""
                  /\ orch_result[i].explanation =
                         IF batch_entry # ""
                         THEN LlmExplanation(batch_entry)
                         ELSE explain_result(cid, company_score(search_results, cid),
                                             thesis_context)

\* The batch result is partial: of two returned records the second has the
\* cached explanation and the first the rule-based one.
C25_Witness ==
    /\ orch_pc = "done"
    /\ Len(orch_result) = 2
    /\ "returned" \in DOMAIN llm_explanations
    /\ DOMAIN llm_explanations.returned = {1}
    /\ orch_result[2].explanation = LlmExplanation("cached")
    /\ orch_result[1].explanation.source = "rule_based"

\* The batch generation raised and two records were returned.
C25_WitnessRaised ==
    /\ orch_pc = "done"
    /\ "raised" \in DOMAIN llm_explanations
    /\ Len(orch_result) = 2

StageCalls(stage) == {i \in 1..Len(orch_calls) : orch_calls[i].stage = stage}

RewriterCalls == StageCalls("rewrite_query_for_search")

C26_WitnessExpanded ==
    /\ orch_pc = "done"
    /\ thesis_context # NoneValue
    /\ search_query # query_text
    /\ [i \in 1..Len(orch_calls) |-> orch_calls[i].stage] =
          <<"expand_conceptual_thesis", "extract_query_filters", "merge_filters",
            "search_companies_with_filters">>

\* The rank of a relevance band: high > good > some
Band(explanation) ==
    IF explanation.text = "High relevance with your query." THEN 3
    ELSE IF explanation.text = "Good relevance with your query." THEN 2
    ELSE 1

\* C27: for any two engine scores a >= b in [0, 2], the band explain_result
\* assigns to a is never lower than the band it assigns to b.
C27_BandMonotone ==
    orch_pc = "done" =>
        \A i, j \in 1..Len(orch_result) :
            (/\ orch_result[i].explanation.source = "rule_based"
             /\ orch_result[j].explanation.source = "rule_based"
             /\ company_score(search_results, orch_result[i].company)
                   >= company_score(search_results, orch_result[j].company))
            => Band(orch_result[i].explanation) >= Band(orch_result[j].explanation)

\* The environment switches the conceptual expansion off.
ConceptualExpansionDisabled ==
    IF "enable_conceptual_expansion" \in DOMAIN orch_env
    THEN orch_env.enable_conceptual_expansion = "false"
    ELSE FALSE

\* C24: when the conceptual-expansion flag of the configuration is disabled,
\* search_companies_with_extraction never calls expand_conceptual_thesis,
\* the search query of a conceptual query is not replaced, and
\* thesis_context is never of type conceptual.
C24_ExpansionGated ==
    ConceptualExpansionDisabled =>
        /\ \A i \in 1..Len(orch_calls) : orch_calls[i].stage # "expand_conceptual_thesis"
        /\ thesis_context # NoneValue => thesis_context.type # "conceptual"
        /\ detect_query_type(query_text) = "conceptual_thesis" => search_query = query_text

-----------------------------------------------------------------------------
(* Company research: backend/logic/researcher.py, backend/llm/client.py *)

\* An LLMClient is its model name.
LLMClient(model) == [model |-> model]

\* any(m in self.model for m in ['gemini'])
SupportsSearch(client) == client.model \in {"gemini-2.0-flash"}

\* What chat.completions.create does: it raises, or it answers with a message
\* whose content is a text or None
ApiRaises == [raised |-> "APIError"]
ApiAnswers(content) == [content |-> content]
ApiOutcomes ==
    {ApiRaises, ApiAnswers(NoneValue), ApiAnswers(StrValue("details"))}

\* do_web_search: the content, None after an exception of the API call, a
\* ValueError for a provider without search
do_web_search(client, api) ==
    IF SupportsSearch(client)
    THEN IF api = ApiRaises THEN NoneValue ELSE api.content
    ELSE [raised |-> "ValueError"]

\* _research_single_company: the second component of its (company.id, text)
research_single_company(client, api) ==
    LET details == do_web_search(client, api)
    IN  IF "raised" \in DOMAIN details
        THEN StrValue("Error: Unable to research this company. Your LLM provider does not support search!")
        ELSE details

\* CompanyDetailsResponse(company_details=...): dict[int, str]
CompanyDetailsResponse(company_details) == [company_details |-> company_details]

CompanyDetailsValid(company_details) ==
    \A cid \in DOMAIN company_details : company_details[cid] # NoneValue

Pending == [pending |-> TRUE]

\* db.query(Company).filter(Company.id.in_(company_ids)).all()
FoundCompanies(company_ids, store) == Range(company_ids) \cap store

ResearchCalled ==
    /\ res_company_ids \in SeqsUpTo(CompanyIds, MaxResearchIds)
    /\ res_query \in {Text(<<>>), Text(<<" ">>), Text(<<"a">>)}
    /\ res_store \in {CompanyIds, {1, 3}}
    /\ res_client \in {NoneValue, LLMClient("gemini-2.0-flash"), LLMClient("gpt-4o")}
    /\ res_tasks = EmptyDict
    /\ res_result = NoneValue
    /\ res_pc = "called"

IdleResearch ==
    /\ res_company_ids = <<>>
    /\ res_query = NoneValue
    /\ res_store = {}
    /\ res_client = NoneValue
    /\ res_tasks = EmptyDict
    /\ res_result = NoneValue
    /\ res_pc = "idle"

ResearchHasInput == Len(res_company_ids) > 0 /\ ~IsBlank(res_query.chars)

\* Lines 45-51: no company ids or a blank query
ResearchNoInput ==
    /\ res_pc = "called"
    /\ ~ResearchHasInput
    /\ res_result' = CompanyDetailsResponse(EmptyDict)
    /\ res_pc' = "done"
    /\ UNCHANGED <<res_company_ids, res_query, res_store, res_client, res_tasks>>

\* Line 64: get_llm_client raises ValueError when no API key is configured.
ResearchNoClient ==
    /\ res_pc = "called"
    /\ ResearchHasInput
    /\ res_client = NoneValue
    /\ res_result' = [raised |-> "ValueError"]
    /\ res_pc' = "raised"
    /\ UNCHANGED <<res_company_ids, res_query, res_store, res_client, res_tasks>>

\* Lines 54-67: one task per company found
ResearchCreateTasks ==
    /\ res_pc = "called"
    /\ ResearchHasInput
    /\ res_client # NoneValue
    /\ res_tasks' = [cid \in FoundCompanies(res_company_ids, res_store) |-> Pending]
    /\ res_pc' = "gather"
    /\ UNCHANGED <<res_company_ids, res_query, res_store, res_client, res_result>>

\* One task of the gather runs to its end, in any order.
ResearchSingleCompany ==
    /\ res_pc = "gather"
    /\ \E cid \in DOMAIN res_tasks :
          /\ res_tasks[cid] = Pending
          /\ \E api \in ApiOutcomes :
                res_tasks' = [res_tasks EXCEPT ![cid] = research_single_company(res_client, api)]
    /\ UNCHANGED <<res_company_ids, res_query, res_store, res_client, res_result, res_pc>>

TasksDone == \A cid \in DOMAIN res_tasks : res_tasks[cid] # Pending

\* Lines 68-75: every task is done and the response object is built.
ResearchReturns ==
    /\ res_pc = "gather"
    /\ TasksDone
    /\ CompanyDetailsValid(res_tasks)
    /\ res_result' = CompanyDetailsResponse(res_tasks)
    /\ res_pc' = "done"
    /\ UNCHANGED <<res_company_ids, res_query, res_store, res_client, res_tasks>>

\* Line 75: a None among the values fails the validation of dict[int, str].
ResearchValidationError ==
    /\ res_pc = "gather"
    /\ TasksDone
    /\ ~CompanyDetailsValid(res_tasks)
    /\ res_result' = [raised |-> "ValidationError"]
    /\ res_pc' = "raised"
    /\ UNCHANGED <<res_company_ids, res_query, res_store, res_client, res_tasks>>

ResearchOthersUnchanged ==
    UNCHANGED <<mergeVars, convVars, normVars, extVars, rwVars, batchVars, orchVars,
                esVars, lruVars, thrVars, trkVars, fzVars, rqVars>>

NextResearch ==
    \/ ResearchNoInput /\ ResearchOthersUnchanged
    \/ ResearchNoClient /\ ResearchOthersUnchanged
    \/ ResearchCreateTasks /\ ResearchOthersUnchanged
    \/ ResearchSingleCompany /\ ResearchOthersUnchanged
    \/ ResearchReturns /\ ResearchOthersUnchanged
    \/ ResearchValidationError /\ ResearchOthersUnchanged

(* Claims about the company research *)

\* C22: for every list of company ids and non-empty query, research_companies
\* returns one entry per company found in the store; a failed web lookup of
\* one company (an exception, an unsupported provider, a lookup without text)
\* becomes that company's own string entry and never fails the request.
C22_FanOutIsolation ==
    (res_pc \in {"done", "raised"} /\ ResearchHasInput /\ res_client # NoneValue) =>
        /\ res_pc = "done"
        /\ DOMAIN res_result.company_details = FoundCompanies(res_company_ids, res_store)
        /\ \A cid \in DOMAIN res_result.company_details :
              res_result.company_details[cid].t = "str"

-----------------------------------------------------------------------------
(* Vocabulary lookup: backend/es/fuzzy_matcher.py *)

\* get_segment_index_name: the segments that have an index
SEGMENT_INDICES ==
    {"industries", "location", "target_markets", "business_models", "revenue_models"}

DEFAULT_THRESHOLD == 80

\* str.lower()
Lower(s) == [i \in 1..Len(s) |-> LowerChar(s[i])]

\* set(text.lower().split())
Tokens(text) == Range(Split(Lower(text)))

\* A hit of the segment index: _source.name and _score (in tenths)
NameHit(name, score) == [name |-> name, score |-> score]

\* Thresholds are in hundredths, qualities in thousandths.  A quality is the
\* fraction num / den, so that no division rounds.
\* normalized_score * 0.7 + token_overlap * 0.3
quality_score(raw_score, max_score, value, matched_name) ==
    LET query_tokens == Tokens(Strip(value))
        match_tokens == Tokens(matched_name)
        overlap_den == IF query_tokens # {} THEN Cardinality(query_tokens) ELSE 1
        overlap_num == IF query_tokens # {}
                       THEN Cardinality(query_tokens \cap match_tokens) ELSE 0
        score_den == IF max_score > 0 THEN max_score ELSE 1
        score_num == IF max_score > 0 THEN raw_score ELSE 0
    IN  [num |-> 700 * score_num * overlap_den + 300 * overlap_num * score_den,
         den |-> score_den * overlap_den]

\* A plausible slip: the floor of short values is max(0.60, 0.8 * threshold)
\* and the other values are held to the threshold itself.
min_quality_ThresholdItself(value_length, threshold) ==
    IF value_length <= 3
    THEN (IF 600 > threshold * 8 THEN 600 ELSE threshold * 8)
    ELSE threshold * 10

\* 0.60 if value_length <= 3 else threshold * 0.8
min_quality(value_length, threshold) ==
    IF value_length <= 3 THEN 600 ELSE threshold * 8

\* A plausible slip: the raw score is not divided by the top score.
passes_quality_RawScore(hit, hits, value, threshold) ==
    LET quality == quality_score(hit.score, 100, value, hit.name)
    IN  quality.num >= min_quality(Len(Strip(value)), threshold) * quality.den

\* quality_score >= min_quality for one hit of a response
passes_quality(hit, hits, value, threshold) ==
    LET quality == quality_score(hit.score, hits[1].score, value, hit.name)
    IN  quality.num >= min_quality(Len(Strip(value)), threshold) * quality.den

\* results[value] for one response of the msearch
filtered_matches(resp, value, threshold) ==
    IF "error" \in DOMAIN resp THEN NoneValue
    ELSE IF Len(resp.hits) = 0 THEN NoneValue
    ELSE LET passing == SelectSeq(resp.hits,
                            LAMBDA hit : passes_quality(hit, resp.hits, value, threshold))
         IN  IF Len(passing) = 0 THEN NoneValue
             ELSE [matches |-> [i \in 1..Len(passing) |-> passing[i].name]]

\* the index of the last occurrence of a value in the list
LastIndex(values, value) ==
    CHOOSE idx \in 1..Len(values) :
        values[idx] = value /\ \A j \in (idx + 1)..Len(values) : values[j] # value

batch_fuzzy_match_values(segment, values, threshold, engine) ==
    IF Len(values) = 0 THEN EmptyDict
    ELSE IF segment \notin SEGMENT_INDICES THEN [value \in Range(values) |-> NoneValue]
    ELSE IF "raised" \in DOMAIN engine THEN [value \in Range(values) |-> NoneValue]
    ELSE [value \in Range(values) |->
             filtered_matches(engine.responses[LastIndex(values, value)], value, threshold)]

\* The raw values and the names of the index
FuzzyValues == {<<"A">>, <<"a", "b", "b", "a">>, <<"a", "b", " ", "b", "a">>}
FuzzyNames == {<<"a">>, <<"a", "b", " ", "b">>, <<"b", "b">>}
FuzzyScores == {10, 45, 50}
FuzzyValueLists ==
    {<<>>} \cup {<<v>> : v \in FuzzyValues}
           \cup {<<<<"A">>, <<"a", "b", " ", "b", "a">>>>, <<<<"a", "b", "b", "a">>, <<"A">>>>}

\* The hit lists of the engine: distinct names, best score first
FuzzyHitLists ==
    { h \in SeqsUpTo({NameHit(name, score) : name \in FuzzyNames, score \in FuzzyScores},
                     MaxFuzzyHits) :
        /\ \A i, j \in 1..Len(h) : i # j => h[i].name # h[j].name
        /\ \A i \in 1..(Len(h) - 1) : h[i].score >= h[i + 1].score }

FuzzyResponses ==
    {[error |-> "search_phase_execution_exception"]} \cup {[hits |-> h] : h \in FuzzyHitLists}

\* What es_client.msearch does with n requests
FuzzyEngineOutcomes(n) ==
    {[raised |-> "ConnectionError"]} \cup {[responses |-> r] : r \in [1..n -> FuzzyResponses]}

FuzzyMatchCalled ==
    /\ fz_segment \in {"industries", "funding_stage"}
    /\ fz_values \in FuzzyValueLists
    /\ fz_threshold \in {60, DEFAULT_THRESHOLD}
    /\ fz_engine = NoneValue
    /\ fz_results = NoneValue
    /\ fz_pc = "called"

IdleFuzzy ==
    /\ fz_segment = ""
    /\ fz_values = <<>>
    /\ fz_threshold = 0
    /\ fz_engine = NoneValue
    /\ fz_results = NoneValue
    /\ fz_pc = "idle"

\* Lines 105-111: nothing to look up, or a segment without an index
FuzzyNoLookup ==
    /\ fz_pc = "called"
    /\ Len(fz_values) = 0 \/ fz_segment \notin SEGMENT_INDICES
    /\ fz_results' = batch_fuzzy_match_values(fz_segment, fz_values, fz_threshold, NoneValue)
    /\ fz_pc' = "done"
    /\ UNCHANGED <<fz_segment, fz_values, fz_threshold, fz_engine>>

\* Lines 172-222: the msearch raises or answers, and the answers are filtered.
FuzzyLookup ==
    /\ fz_pc = "called"
    /\ Len(fz_values) > 0 /\ fz_segment \in SEGMENT_INDICES
    /\ \E engine \in FuzzyEngineOutcomes(Len(fz_values)) :
          /\ fz_engine' = engine
          /\ fz_results' = batch_fuzzy_match_values(fz_segment, fz_values, fz_threshold, engine)
    /\ fz_pc' = "done"
    /\ UNCHANGED <<fz_segment, fz_values, fz_threshold>>

FuzzyOthersUnchanged ==
    UNCHANGED <<mergeVars, convVars, normVars, extVars, rwVars, batchVars, orchVars,
                esVars, lruVars, thrVars, trkVars, resVars, rqVars>>

NextFuzzy ==
    \/ FuzzyNoLookup /\ FuzzyOthersUnchanged
    \/ FuzzyLookup /\ FuzzyOthersUnchanged

(* Claims about the vocabulary lookup *)

\* The lookup of the i-th value was answered with at least one hit.
HitsFor(i) ==
    IF fz_pc = "done" /\ fz_engine # NoneValue /\ "responses" \in DOMAIN fz_engine
    THEN IF "hits" \in DOMAIN fz_engine.responses[i]
         THEN fz_engine.responses[i].hits ELSE <<>>
    ELSE <<>>

Accepted(i, k) ==
    IF fz_results[fz_values[i]] = NoneValue THEN FALSE
    ELSE HitsFor(i)[k].name \in Range(fz_results[fz_values[i]].matches)

\* quality >= floor, for the k-th hit of the i-th value; floor in thousandths
QualityAtLeast(i, k, floor) ==
    LET quality == quality_score(HitsFor(i)[k].score, HitsFor(i)[1].score,
                                 fz_values[i], HitsFor(i)[k].name)
    IN  quality.num >= floor * quality.den

IsShortValue(i) == Len(Strip(fz_values[i])) <= 3

-----------------------------------------------------------------------------
(* Successive requests on the explanation cache:                             *)
(* backend/llm/explanation_generator.py, backend/llm/explanation_cache.py    *)

\* A call batch_generate_explanations(companies, query, applied_filters)
Request(company_ids, query, filters) ==
    [company_ids |-> company_ids, query |-> query, applied_filters |-> filters]

\* Two sets of applied filters, two spellings of one query text
RequestFilters ==
    { QueryFilters("AND", <<SegmentFilter("location", "text", "AND",
                              <<FilterRule("EQ", StrValue(city))>>, "user")>>) :
        city \in {"Paris", "Tokyo"} }

Requests ==
    { Request(ids, q, f) : ids \in {<<1>>, <<1, 2>>}, q \in BatchQueries, f \in RequestFilters }

\* What the model wrote for the companies of one prompt
RequestTexts == {"for Paris", "for Tokyo"}

\* An explanation served from the cache, with the request it was served to
Served(request, company_id, explanation) ==
    [company_id |-> company_id, query_hash |-> normalize_query(request.query),
     applied_filters |-> request.applied_filters, explanation |-> explanation]

ServedSet(request, cached_explanations) ==
    { Served(request, id, cached_explanations[id]) : id \in DOMAIN cached_explanations }

\* The filters each stored key was generated for, after a request stored
\* explanations for the ids in written and the cache became cache
GeneratedFor(old, cache, request, written) ==
    LET key_hash == normalize_query(request.query)
        kept == { g \in old : ~(g.key.query_hash = key_hash /\ g.key.company_id \in written) }
        added == { [key |-> CacheKey(id, key_hash), applied_filters |-> request.applied_filters] :
                     id \in written }
    IN  { g \in kept \cup added : g.key \in StoredKeys(cache) }

RequestsStarted ==
    /\ rq_cache = ExplanationCache(<<>>, 0, 0, 0)
    /\ rq_request = NoneValue
    /\ rq_served = NoneValue
    /\ rq_generated_for = {}
    /\ rq_history = {}
    /\ rq_count = 0

IdleRequests ==
    /\ rq_cache = ExplanationCache(<<>>, 0, 0, 0)
    /\ rq_request = NoneValue
    /\ rq_served = NoneValue
    /\ rq_generated_for = {}
    /\ rq_history = {}
    /\ rq_count = MaxRequests

\* Steps 1 and 2 with every company cached: the early return.
RequestAllCached ==
    /\ rq_count < MaxRequests
    /\ \E request \in Requests :
        LET looked == batch_lookup(request.company_ids, request.query, TRUE,
                                   rq_cache, cache_now)
        IN  /\ Len(looked.companies_to_generate) = 0
            /\ rq_request' = request
            /\ rq_cache' = looked.cache
            /\ rq_served' = Returned(looked.cached_explanations)
            /\ rq_history' = rq_history \cup ServedSet(request, looked.cached_explanations)
    /\ rq_count' = rq_count + 1
    /\ UNCHANGED rq_generated_for

\* Steps 1 to 5 when the model call returns an explanation for each company
\* that is not cached: cache.set_batch(new_explanations, query) stores them
\* under the query alone.
RequestStoresGenerated ==
    /\ rq_count < MaxRequests
    /\ \E request \in Requests, text \in RequestTexts :
        LET looked == batch_lookup(request.company_ids, request.query, TRUE,
                                   rq_cache, cache_now)
            new_explanations ==
                [i \in 1..Len(looked.companies_to_generate) |->
                    Item(looked.companies_to_generate[i], text)]
            stored == set_batch(looked.cache, new_explanations, request.query, cache_now)
        IN  /\ Len(looked.companies_to_generate) > 0
            /\ rq_request' = request
            /\ rq_cache' = stored
            /\ rq_served' = Returned(looked.cached_explanations)
            /\ rq_history' = rq_history \cup ServedSet(request, looked.cached_explanations)
            /\ rq_generated_for' =
                   GeneratedFor(rq_generated_for, stored, request,
                                Range(looked.companies_to_generate))
    /\ rq_count' = rq_count + 1

\* The model call fails: the except clause returns the cached subset and
\* nothing is stored.
RequestLlmCallFails ==
    /\ rq_count < MaxRequests
    /\ \E request \in Requests :
        LET looked == batch_lookup(request.company_ids, request.query, TRUE,
                                   rq_cache, cache_now)
        IN  /\ Len(looked.companies_to_generate) > 0
            /\ rq_request' = request
            /\ rq_cache' = looked.cache
            /\ rq_served' = Returned(looked.cached_explanations)
            /\ rq_history' = rq_history \cup ServedSet(request, looked.cached_explanations)
    /\ rq_count' = rq_count + 1
    /\ UNCHANGED rq_generated_for

RequestsOthersUnchanged ==
    UNCHANGED <<mergeVars, convVars, normVars, extVars, rwVars, batchVars, orchVars,
                esVars, lruVars, thrVars, trkVars, resVars, fzVars>>

NextRequests ==
    \/ RequestAllCached /\ RequestsOthersUnchanged
    \/ RequestStoresGenerated /\ RequestsOthersUnchanged
    \/ RequestLlmCallFails /\ RequestsOthersUnchanged

(* Claims about successive requests *)

-----------------------------------------------------------------------------
(* Specifications: one per component, the other components idle *)

NextMerge ==
    \/ MergeFilters
    \/ MergeFiltersUnexpectedKeyword

InitMerge ==
    MergeCalled /\ IdleConvert /\ IdleNormalize /\ IdleExtract /\ IdleRewrite /\ IdleBatch /\ IdleSearch /\ IdleEngineSearch /\ IdleCache /\ IdleThreads /\ IdleTracking /\ IdleResearch /\ IdleFuzzy /\ IdleRequests

SpecMerge == InitMerge /\ [][NextMerge]_vars

InitConvert ==
    ConvertCalled /\ IdleMerge /\ IdleNormalize /\ IdleExtract /\ IdleRewrite /\ IdleBatch /\ IdleSearch /\ IdleEngineSearch /\ IdleCache /\ IdleThreads /\ IdleTracking /\ IdleResearch /\ IdleFuzzy /\ IdleRequests

SpecConvert == InitConvert /\ [][NextConvert]_vars

InitNormalize ==
    NormalizeCalled /\ IdleMerge /\ IdleConvert /\ IdleExtract /\ IdleRewrite /\ IdleBatch /\ IdleSearch /\ IdleEngineSearch /\ IdleCache /\ IdleThreads /\ IdleTracking /\ IdleResearch /\ IdleFuzzy /\ IdleRequests

SpecNormalize == InitNormalize /\ [][NextNormalize]_vars

InitExtract ==
    ExtractCalled /\ IdleMerge /\ IdleConvert /\ IdleNormalize /\ IdleRewrite /\ IdleBatch /\ IdleSearch /\ IdleEngineSearch /\ IdleCache /\ IdleThreads /\ IdleTracking /\ IdleResearch /\ IdleFuzzy /\ IdleRequests

SpecExtract == InitExtract /\ [][NextExtract]_vars

InitRewrite ==
    RewriteCalled /\ IdleMerge /\ IdleConvert /\ IdleNormalize /\ IdleExtract /\ IdleBatch /\ IdleSearch /\ IdleEngineSearch /\ IdleCache /\ IdleThreads /\ IdleTracking /\ IdleResearch /\ IdleFuzzy /\ IdleRequests

SpecRewrite == InitRewrite /\ [][NextRewrite]_vars

InitBatch ==
    BatchCalled /\ IdleMerge /\ IdleConvert /\ IdleNormalize /\ IdleExtract /\ IdleRewrite /\ IdleSearch /\ IdleEngineSearch /\ IdleCache /\ IdleThreads /\ IdleTracking /\ IdleResearch /\ IdleFuzzy /\ IdleRequests

SpecBatch == InitBatch /\ [][NextBatch]_vars

InitSearch ==
    SearchCalled /\ IdleMerge /\ IdleConvert /\ IdleNormalize /\ IdleExtract /\ IdleRewrite /\ IdleEngineSearch /\ IdleCache /\ IdleThreads /\ IdleTracking /\ IdleResearch /\ IdleFuzzy /\ IdleRequests

SpecSearch == InitSearch /\ [][NextSearch]_vars

InitEngineSearch ==
    EngineSearchCalled /\ IdleMerge /\ IdleConvert /\ IdleNormalize /\ IdleExtract /\ IdleRewrite /\ IdleBatch /\ IdleSearch /\ IdleCache /\ IdleThreads /\ IdleTracking /\ IdleResearch /\ IdleFuzzy /\ IdleRequests

SpecEngineSearch == InitEngineSearch /\ [][NextEngineSearch]_vars

InitCache ==
    CacheCreated /\ IdleMerge /\ IdleConvert /\ IdleNormalize /\ IdleExtract /\ IdleRewrite /\ IdleBatch /\ IdleSearch /\ IdleEngineSearch /\ IdleThreads /\ IdleTracking /\ IdleResearch /\ IdleFuzzy /\ IdleRequests

SpecCache == InitCache /\ [][NextCache]_vars

InitThreads ==
    ThreadsStarted /\ IdleMerge /\ IdleConvert /\ IdleNormalize /\ IdleExtract /\ IdleRewrite /\ IdleBatch /\ IdleSearch /\ IdleEngineSearch /\ IdleCache /\ IdleTracking /\ IdleResearch /\ IdleFuzzy /\ IdleRequests

SpecThreads == InitThreads /\ [][NextThreads]_vars

InitTracking ==
    TrackingStarted /\ IdleMerge /\ IdleConvert /\ IdleNormalize /\ IdleExtract /\ IdleRewrite /\ IdleBatch /\ IdleSearch /\ IdleEngineSearch /\ IdleCache /\ IdleThreads /\ IdleResearch /\ IdleFuzzy /\ IdleRequests

SpecTracking == InitTracking /\ [][NextTracking]_vars

InitResearch ==
    ResearchCalled /\ IdleMerge /\ IdleConvert /\ IdleNormalize /\ IdleExtract /\ IdleRewrite /\ IdleBatch /\ IdleSearch /\ IdleEngineSearch /\ IdleCache /\ IdleThreads /\ IdleTracking /\ IdleFuzzy /\ IdleRequests

SpecResearch == InitResearch /\ [][NextResearch]_vars

InitFuzzy ==
    FuzzyMatchCalled /\ IdleMerge /\ IdleConvert /\ IdleNormalize /\ IdleExtract /\ IdleRewrite /\ IdleBatch /\ IdleSearch /\ IdleEngineSearch /\ IdleCache /\ IdleThreads /\ IdleTracking /\ IdleResearch /\ IdleRequests

SpecFuzzy == InitFuzzy /\ [][NextFuzzy]_vars

InitRequests ==
    RequestsStarted /\ IdleMerge /\ IdleConvert /\ IdleNormalize /\ IdleExtract /\ IdleRewrite /\ IdleBatch /\ IdleSearch /\ IdleEngineSearch /\ IdleCache /\ IdleThreads /\ IdleTracking /\ IdleResearch /\ IdleFuzzy

SpecRequests == InitRequests /\ [][NextRequests]_vars

=============================================================================
